---- MODULE Spec2Model ----
(***************************************************************************)
(* Payment status sync workflow (crates/router/src/workflows/              *)
(* payment_sync.rs): one process-tracker job driven by                     *)
(* PaymentsSyncWorkflow::execute_workflow through inquiry, terminal check, *)
(* retry_sync_task and the timeout-to-failure escalation.                  *)
(*                                                                         *)
(* execute_workflow is split at its await points: each action below is the *)
(* code between two suspension points, so that a worker crash and the      *)
(* re-delivery of the job can fall between any two of them.                *)
(***************************************************************************)
EXTENDS Integers, Sequences, FiniteSets, TLC

VARIABLES
    job,            \* the process-tracker record in the job store
    attempt,        \* the stored payment attempt
    intent,         \* the stored payment intent
    config,         \* the `pt_mapping_{connector}` entry of the config store
    pc,             \* the worker's position in execute_workflow
    process,        \* execute_workflow's `process` argument
    payment_data,   \* execute_workflow's `payment_data.payment_attempt`
    is_last_retry,  \* execute_workflow's `is_last_retry`
    reqs,           \* the requests and writes this invocation has issued, in order
    ret,            \* how the last invocation ended
    err,            \* the error the invocation returned
    webhook_result, \* the outcome of this invocation's webhook delivery
    lost,           \* a worker crashed while holding the job: it is delivered again
    crashes,        \* number of worker crashes so far
    counts,         \* escalation writes performed over the job's whole life
    attempt0,       \* the stored attempt when this invocation was delivered
    intent0,        \* the stored intent when this invocation was delivered
    inquired,       \* the attempt as this invocation's status inquiry returned it
    committed,      \* this invocation's job transition (retry or finish) is committed
    rerun,          \* this invocation re-runs one that crashed before committing
    merchant_connector_accounts, \* the merchant's connector accounts as stored
    routing_algorithm,  \* the routing algorithm handed to the validator
    validation,         \* what validate_connectors_in_routing_config returned
    business_profile,   \* the stored business profile record
    merchant_account,   \* the stored merchant account record
    redact_channel,     \* the cache keys published for invalidation, in order
    activation,         \* the activation call in flight: position, inputs, result
    configs,            \* the key-value config store: key -> stored string
    callers,            \* the callers of the default-config helpers
    cache,              \* a reading process's in-memory cache: key -> value
    readers,            \* the reads of the active algorithm in flight
    resolver,           \* one call of the schedule resolver: inputs and result
    organizations,      \* MockDb's list of organizations
    clients,            \* the callers of MockDb's organization methods
    hipay               \* one Hipay status-sync reply and its conversion

\* The state of the routing helpers (crates/router/src/core/routing/helpers.rs).
routing == <<merchant_connector_accounts, routing_algorithm, validation,
             business_profile, merchant_account, redact_channel, activation,
             configs, callers, cache, readers, resolver, organizations,
             clients, hipay>>

vars == <<job, attempt, intent, config, pc, process, payment_data, is_last_retry,
          reqs, ret, err, webhook_result, lost, crashes, counts, attempt0, intent0,
          inquired, committed, rerun, routing>>

\* The payment sync workflow calls none of the routing helpers: while it
\* runs, their state is absent.
RoutingIdle ==
    /\ merchant_connector_accounts = {}
    /\ routing_algorithm = << >>
    /\ validation = << >>
    /\ business_profile = << >>
    /\ merchant_account = << >>
    /\ redact_channel = << >>
    /\ activation = << >>
    /\ configs = << >>
    /\ callers = << >>
    /\ cache = << >>
    /\ readers = << >>
    /\ resolver = << >>
    /\ organizations = << >>
    /\ clients = << >>
    /\ hipay = << >>

\* ------------------------------------------------------------------ bounds

\* Worker crashes explored per behaviour.
MaxCrashes == 2

\* Jobs are delivered up to this retry_count (above every mapping's repeat count).
MaxRetryCount == 6

\* ------------------------------------------------------------------ values

None == <<>>
Some(x) == <<x>>

\* terminal_status without VoidFailed.
terminal_status_NoVoidFailed ==
    {"RouterDeclined", "Charged", "AutoRefunded", "Voided", "CaptureFailed", "Failure"}

\* terminal_status of execute_workflow.
terminal_status ==
    {"RouterDeclined", "Charged", "AutoRefunded", "Voided", "VoidFailed",
     "CaptureFailed", "Failure"}

\* The attempt statuses a connector's reply is mapped to: those the workflow
\* names and three of the others.
AttemptStatus ==
    {"RouterDeclined", "Charged", "AutoRefunded", "Voided", "VoidFailed",
     "CaptureFailed", "Failure", "Pending", "Started", "Authorized"}

COMPLETED_BY_PT == "COMPLETED_BY_PT"
RETRIES_EXCEEDED == "RETRIES_EXCEEDED"
GLOBAL_FAILURE == "GLOBAL_FAILURE"

\* ConnectorPTMapping::default(): one start_after, one bucket, a fixed maximum.
DefaultMapping ==
    [start_after |-> 60, frequencies |-> << <<300, 5>> >>, max_retries_count |-> 5]

\* Connector-specific mappings a deployment may have configured.
Mappings ==
    { [start_after |-> 60, frequencies |-> << <<300, 2>> >>, max_retries_count |-> 2],
      [start_after |-> 10, frequencies |-> << <<20, 1>>, <<40, 2>> >>,
       max_retries_count |-> 3],
      [start_after |-> 10, frequencies |-> << <<20, 3>> >>, max_retries_count |-> 1],
      [start_after |-> 5, frequencies |-> << >>, max_retries_count |-> 0] }

\* What find_config_by_key("pt_mapping_{connector}") and parse_struct can yield.
ConfigEntries ==
    { [found |-> FALSE, parses |-> FALSE, mapping |-> DefaultMapping],
      [found |-> TRUE, parses |-> FALSE, mapping |-> DefaultMapping] }
    \cup { [found |-> TRUE, parses |-> TRUE, mapping |-> m] : m \in Mappings }

\* ------------------------------------------------- the schedule resolver

RECURSIVE get_delay_PerBucket(_, _, _)
\* get_delay that compares the retry number with each bucket's own repeat
\* count instead of the running total.
get_delay_PerBucket(retry_count, frequencies, cumulative_count) ==
    IF frequencies = << >> THEN None
    ELSE IF Head(frequencies)[2] >= retry_count THEN Some(Head(frequencies)[1])
    ELSE get_delay_PerBucket(retry_count, Tail(frequencies), 0)

RECURSIVE get_delay(_, _, _)
\* The interval of the first bucket whose cumulative repeat count reaches
\* retry_count; none when the buckets are used up.
get_delay(retry_count, frequencies, cumulative_count) ==
    IF frequencies = << >> THEN None
    ELSE LET c == cumulative_count + Head(frequencies)[2]
         IN  IF c >= retry_count THEN Some(Head(frequencies)[1])
             ELSE get_delay(retry_count, Tail(frequencies), c)

\* get_schedule_time that walks the buckets for the first call too.
get_schedule_time_NoStartAfter(mapping, retry_count) ==
    IF retry_count > mapping.max_retries_count THEN None
    ELSE get_delay(retry_count, mapping.frequencies, 0)

\* get_schedule_time that stops only when the buckets are used up.
get_schedule_time_BucketsOnly(mapping, retry_count) ==
    IF retry_count = 0 THEN Some(mapping.start_after)
    ELSE get_delay(retry_count, mapping.frequencies, 0)

\* scheduler_utils::get_schedule_time.
get_schedule_time(mapping, retry_count) ==
    IF retry_count = 0 THEN Some(mapping.start_after)
    ELSE IF retry_count > mapping.max_retries_count THEN None
    ELSE get_delay(retry_count, mapping.frequencies, 0)

\* scheduler_utils::get_time_from_delta: the time that many seconds from now.
get_time_from_delta(delta) ==
    IF delta = None THEN None ELSE Some([seconds_from_now |-> delta[1]])

\* The mapping get_sync_process_schedule_time works with: the configured one,
\* or the default when the entry is missing or does not deserialize.
LoadedMapping(cfg) ==
    IF cfg.found /\ cfg.parses THEN cfg.mapping ELSE DefaultMapping

get_sync_process_schedule_time(cfg, retry_count) ==
    get_time_from_delta(get_schedule_time(LoadedMapping(cfg), retry_count))

\* --------------------------------------------------------- the job tracker

\* finish_process_with_business_status that overwrites a finished job.
finish_process_with_business_status_Overwrites(j, business_status) ==
    [j EXCEPT !.status = "Completed", !.business_status = business_status]

\* finish_process_with_business_status: a finished job stays as it is.
finish_process_with_business_status(j, business_status) ==
    IF j.status = "Completed" THEN j
    ELSE [j EXCEPT !.status = "Completed", !.business_status = business_status]

\* retry_process(pt, schedule_time).
retry_process(j, pt, schedule_time) ==
    IF j.status = "Completed" THEN j
    ELSE [j EXCEPT !.status = "Retry", !.retry_count = pt.retry_count + 1,
                   !.schedule_time = schedule_time]

\* consumer_error_handler: the tracker abandons the job or runs it again later.
consumer_error_handler(j) ==
    IF j.status = "Completed" THEN {j}
    ELSE { [j EXCEPT !.status = "Completed", !.business_status = GLOBAL_FAILURE],
           [j EXCEPT !.status = "Retry"] }

\* ------------------------------------------------------ the status inquiry

\* payments_operation_core with operations::PaymentStatus: the attempt as the
\* connector now reports it. A stored terminal status is final; a connector
\* transaction id, once recorded, stays.
InquiryResults(a) ==
    IF a.status \in terminal_status THEN {a}
    ELSE { [a EXCEPT !.status = s, !.connector_transaction_id = t] :
             s \in AttemptStatus,
             t \in IF a.connector_transaction_id = "none" THEN {"none", "txn_1"}
                   ELSE {a.connector_transaction_id} }

\* ------------------------------------------------------------------- Init

Init ==
    /\ job = [status |-> "New", business_status |-> "Pending", retry_count |-> 0,
              schedule_time |-> None]
    /\ attempt \in [status : {"Pending", "Started", "Authorized"},
                    connector : {"none", "hipay"},
                    connector_transaction_id : {"none", "txn_1"}]
    /\ intent = [status |-> "Processing", incremental_authorization_allowed |-> TRUE]
    /\ config \in ConfigEntries
    /\ pc = "idle"
    /\ process = job
    /\ payment_data = attempt
    /\ is_last_retry = None
    /\ reqs = << >>
    /\ ret = "none"
    /\ err = "none"
    /\ webhook_result = "none"
    /\ lost = FALSE
    /\ crashes = 0
    /\ counts = [attempt_update |-> 0, intent_update |-> 0, webhook |-> 0]
    /\ attempt0 = attempt
    /\ intent0 = intent
    /\ inquired = attempt
    /\ committed = FALSE
    /\ rerun = FALSE
    /\ RoutingIdle


\* ---------------------------------------------------------------- actions

\* Written only when a job is delivered.
snapshot == <<attempt0, intent0, rerun>>
\* The configuration and the crash bookkeeping.
env == <<config, lost, crashes>>

Request(op) == reqs' = Append(reqs, op)
Requested(op) == \E i \in 1..Len(reqs) : reqs[i] = op

\* A `?` that returns the error from execute_workflow.
Fail(kind) == pc' = "error" /\ err' = kind

\* The escalation writes placed before the match and the job transition.
AfterInquiry_EscalatesFirst == "update_attempt"

\* Where execute_workflow goes once the inquiry has returned: the match on the
\* attempt status.
AfterInquiry == "check"

\* The resolver asked about the current retry_count.
NextRetryCount_NoIncrement(pt) == pt.retry_count

\* The resolver asked about the retry after the next.
NextRetryCount_PlusTwo(pt) == pt.retry_count + 2

\* The retry number retry_sync_task asks the resolver about.
NextRetryCount(pt) == pt.retry_count + 1

\* The exhausted arm finishing the job as if the workflow had completed it.
ExhaustedBusinessStatus_CompletedByPt == COMPLETED_BY_PT

\* The business status retry_sync_task finishes an exhausted job with.
ExhaustedBusinessStatus == RETRIES_EXCEEDED

\* The escalation condition with the transaction id test inverted (is_some).
ShouldEscalate_TxnPresent(last_retry, pa) ==
    /\ last_retry
    /\ pa.status = "Pending"
    /\ pa.connector_transaction_id # "none"

\* The escalation condition without the last-retry test.
ShouldEscalate_OnEveryRetry(last_retry, pa) ==
    /\ pa.status = "Pending"
    /\ pa.connector_transaction_id = "none"

\* The escalation condition without the transaction id test.
ShouldEscalate_IgnoresTxnId(last_retry, pa) ==
    /\ last_retry
    /\ pa.status = "Pending"

\* The escalation condition of execute_workflow.
ShouldEscalate(last_retry, pa) ==
    /\ last_retry
    /\ pa.status = "Pending"
    /\ pa.connector_transaction_id = "none"

\* The consumer hands the job to a worker: a scheduled run of a New or Retry
\* job, or the re-delivery of a job whose worker crashed.
Deliver ==
    /\ pc = "idle"
    /\ job.status \in {"New", "Retry"} \/ lost
    /\ job.retry_count <= MaxRetryCount
    /\ job' = IF job.status \in {"New", "Retry"}
              THEN [job EXCEPT !.status = "ProcessStarted"] ELSE job
    /\ process' = job'
    /\ pc' = "parse"
    /\ payment_data' = attempt
    /\ inquired' = attempt
    /\ is_last_retry' = None
    /\ reqs' = << >>
    /\ ret' = "none"
    /\ err' = "none"
    /\ webhook_result' = "none"
    /\ lost' = FALSE
    /\ committed' = FALSE
    /\ rerun' = (lost /\ ~committed)
    /\ attempt0' = attempt
    /\ intent0' = intent
    /\ UNCHANGED <<routing, attempt, intent, config, crashes, counts>>

\* process.tracking_data.parse_value("PaymentsRetrieveRequest")?
ParseTrackingData(ok) ==
    /\ pc = "parse"
    /\ IF ok THEN pc' = "key_store" /\ err' = err ELSE Fail("parse_value")
    /\ UNCHANGED <<routing, job, attempt, intent, process, payment_data, is_last_retry, reqs,
                   ret, webhook_result, counts, inquired, committed, snapshot, env>>

\* db.get_merchant_key_store_by_merchant_id(..).await?
GetMerchantKeyStore(ok) ==
    /\ pc = "key_store"
    /\ IF ok THEN pc' = "merchant_account" /\ err' = err ELSE Fail("key_store")
    /\ UNCHANGED <<routing, job, attempt, intent, process, payment_data, is_last_retry, reqs,
                   ret, webhook_result, counts, inquired, committed, snapshot, env>>

\* db.find_merchant_account_by_merchant_id(..).await?
FindMerchantAccount(ok) ==
    /\ pc = "merchant_account"
    /\ IF ok THEN pc' = "inquiry" /\ err' = err ELSE Fail("merchant_account")
    /\ UNCHANGED <<routing, job, attempt, intent, process, payment_data, is_last_retry, reqs,
                   ret, webhook_result, counts, inquired, committed, snapshot, env>>

\* payments_operation_core::<api::PSync, ..>(..).await?
StatusInquiry(ok) ==
    /\ pc = "inquiry"
    /\ IF ok
       THEN \E a \in InquiryResults(attempt) :
               /\ attempt' = a
               /\ payment_data' = a
               /\ inquired' = a
               /\ Request("payments_operation_core")
               /\ pc' = AfterInquiry
               /\ err' = err
       ELSE Fail("inquiry") /\ UNCHANGED <<attempt, payment_data, inquired, reqs>>
    /\ UNCHANGED <<routing, job, intent, process, is_last_retry, ret, webhook_result, counts,
                   committed, snapshot, env>>

\* The terminal arm of the match: finish the job as completed by the workflow.
FinishTerminal(ok) ==
    /\ pc = "check"
    /\ payment_data.status \in terminal_status
    /\ Request("finish_" \o COMPLETED_BY_PT)
    /\ IF ok
       THEN /\ job' = finish_process_with_business_status(job, COMPLETED_BY_PT)
            /\ committed' = TRUE
            /\ pc' = "return"
            /\ err' = err
       ELSE Fail("tracker") /\ UNCHANGED <<job, committed>>
    /\ UNCHANGED <<routing, attempt, intent, process, payment_data, is_last_retry, ret,
                   webhook_result, counts, inquired, snapshot, env>>

\* MissingConnector that asks for a retry of the job before it fails.
MissingConnector_RetriesFirst ==
    /\ pc = "check"
    /\ payment_data.status \notin terminal_status
    /\ payment_data.connector = "none"
    /\ Request("retry_process")
    /\ Fail("MissingRequiredField")
    /\ UNCHANGED <<routing, job, attempt, intent, process, payment_data, is_last_retry,
                   ret, webhook_result, counts, inquired, committed, snapshot, env>>

\* payment_attempt.connector.ok_or(MissingRequiredField)?
MissingConnector ==
    /\ pc = "check"
    /\ payment_data.status \notin terminal_status
    /\ payment_data.connector = "none"
    /\ Fail("MissingRequiredField")
    /\ UNCHANGED <<routing, job, attempt, intent, process, payment_data, is_last_retry, reqs,
                   ret, webhook_result, counts, inquired, committed, snapshot, env>>

\* retry_sync_task(db, connector, merchant_id, process).await? and the test of
\* the escalation condition that follows it.
RetrySyncTask(ok) ==
    /\ pc = "check"
    /\ payment_data.status \notin terminal_status
    /\ payment_data.connector # "none"
    /\ LET schedule_time ==
               get_sync_process_schedule_time(config, NextRetryCount(process))
           last == (schedule_time = None)
       IN  /\ Request(IF last THEN "finish_" \o ExhaustedBusinessStatus
                       ELSE "retry_process")
           /\ IF ok
              THEN /\ job' = IF last
                             THEN finish_process_with_business_status(
                                      job, ExhaustedBusinessStatus)
                             ELSE retry_process(job, process, schedule_time)
                   /\ committed' = TRUE
                   /\ is_last_retry' = Some(last)
                   /\ pc' = IF ShouldEscalate(last, payment_data)
                            THEN "update_attempt" ELSE "return"
                   /\ err' = err
              ELSE Fail("tracker") /\ UNCHANGED <<job, committed, is_last_retry>>
    /\ UNCHANGED <<routing, attempt, intent, process, payment_data, ret, webhook_result,
                   counts, inquired, snapshot, env>>

\* The attempt update carrying the error reason but not the Failure status.
UpdatePaymentAttempt_KeepsStatus(ok) ==
    /\ pc = "update_attempt"
    /\ Request("update_payment_attempt")
    /\ IF ok
       THEN /\ attempt' = attempt
            /\ payment_data' = attempt'
            /\ counts' = [counts EXCEPT !.attempt_update = @ + 1]
            /\ pc' = "update_intent"
            /\ err' = err
       ELSE Fail("PaymentNotFound") /\ UNCHANGED <<attempt, payment_data, counts>>
    /\ UNCHANGED <<routing, job, intent, process, is_last_retry, ret, webhook_result,
                   inquired, committed, snapshot, env>>

\* db.update_payment_attempt_with_attempt_id(.., ErrorUpdate {status: Failure, ..})
UpdatePaymentAttempt(ok) ==
    /\ pc = "update_attempt"
    /\ Request("update_payment_attempt")
    /\ IF ok
       THEN /\ attempt' = [attempt EXCEPT !.status = "Failure"]
            /\ payment_data' = attempt'
            /\ counts' = [counts EXCEPT !.attempt_update = @ + 1]
            /\ pc' = "update_intent"
            /\ err' = err
       ELSE Fail("PaymentNotFound") /\ UNCHANGED <<attempt, payment_data, counts>>
    /\ UNCHANGED <<routing, job, intent, process, is_last_retry, ret, webhook_result,
                   inquired, committed, snapshot, env>>

\* db.update_payment_intent(.., PGStatusUpdate {status: Failed, ..})
UpdatePaymentIntent(ok) ==
    /\ pc = "update_intent"
    /\ Request("update_payment_intent")
    /\ IF ok
       THEN /\ intent' = [intent EXCEPT !.status = "Failed",
                                        !.incremental_authorization_allowed = FALSE]
            /\ counts' = [counts EXCEPT !.intent_update = @ + 1]
            /\ pc' = "find_profile"
            /\ err' = err
       ELSE Fail("PaymentNotFound") /\ UNCHANGED <<intent, counts>>
    /\ UNCHANGED <<routing, job, attempt, process, payment_data, is_last_retry, ret,
                   webhook_result, inquired, committed, snapshot, env>>

\* FindBusinessProfile that goes on to the webhook without a profile.
FindBusinessProfile_GoesOn(ok) ==
    /\ pc = "find_profile"
    /\ pc' = "webhook"
    /\ err' = IF ok THEN err ELSE "ProfileNotFound"
    /\ UNCHANGED <<routing, job, attempt, intent, process, payment_data, is_last_retry, reqs,
                   ret, webhook_result, counts, inquired, committed, snapshot, env>>

\* profile_id.get_required_value(..)? and db.find_business_profile_by_profile_id
FindBusinessProfile(ok) ==
    /\ pc = "find_profile"
    /\ IF ok THEN pc' = "webhook" /\ err' = err ELSE Fail("ProfileNotFound")
    /\ UNCHANGED <<routing, job, attempt, intent, process, payment_data, is_last_retry, reqs,
                   ret, webhook_result, counts, inquired, committed, snapshot, env>>

\* The webhook call with `?` in place of map_err(..).ok().
TriggerPaymentsWebhook_Propagates(delivered) ==
    /\ pc = "webhook"
    /\ Request("trigger_payments_webhook")
    /\ webhook_result' = IF delivered THEN "delivered" ELSE "failed"
    /\ counts' = [counts EXCEPT !.webhook = @ + 1]
    /\ IF delivered THEN pc' = "return" /\ err' = err ELSE Fail("webhook")
    /\ UNCHANGED <<routing, job, attempt, intent, process, payment_data, is_last_retry, ret,
                   inquired, committed, snapshot, env>>

\* utils::trigger_payments_webhook(..).await.map_err(|error| warn!(..)).ok()
TriggerPaymentsWebhook(delivered) ==
    /\ pc = "webhook"
    /\ Request("trigger_payments_webhook")
    /\ webhook_result' = IF delivered THEN "delivered" ELSE "failed"
    /\ counts' = [counts EXCEPT !.webhook = @ + 1]
    /\ pc' = "return"
    /\ UNCHANGED <<routing, job, attempt, intent, process, payment_data, is_last_retry, ret,
                   err, inquired, committed, snapshot, env>>

\* Ok(())
ReturnOk ==
    /\ pc = "return"
    /\ pc' = "idle"
    /\ ret' = "Ok"
    /\ UNCHANGED <<routing, job, attempt, intent, process, payment_data, is_last_retry, reqs,
                   err, webhook_result, counts, inquired, committed, snapshot, env>>

\* execute_workflow returns Err(err) to the consumer.
ReturnErr ==
    /\ pc = "error"
    /\ pc' = "handle_error"
    /\ ret' = "Err"
    /\ UNCHANGED <<routing, job, attempt, intent, process, payment_data, is_last_retry, reqs,
                   err, webhook_result, counts, inquired, committed, snapshot, env>>

\* An error_handler that drops the error without telling the tracker.
ErrorHandler_Ignores ==
    /\ pc = "handle_error"
    /\ pc' = "idle"
    /\ UNCHANGED <<routing, job, attempt, intent, process, payment_data, is_last_retry, reqs,
                   ret, err, webhook_result, counts, inquired, committed, snapshot,
                   env>>

\* error_handler: consumer::consumer_error_handler(.., process, error)
ErrorHandler ==
    /\ pc = "handle_error"
    /\ Request("consumer_error_handler")
    /\ job' \in consumer_error_handler(job)
    /\ pc' = "idle"
    /\ UNCHANGED <<routing, attempt, intent, process, payment_data, is_last_retry, ret, err,
                   webhook_result, counts, inquired, committed, snapshot, env>>

\* The worker dies; the job will be delivered again.
Crash ==
    /\ pc # "idle"
    /\ crashes < MaxCrashes
    /\ crashes' = crashes + 1
    /\ pc' = "idle"
    /\ ret' = "Crashed"
    /\ lost' = TRUE
    /\ UNCHANGED <<routing, job, attempt, intent, config, process, payment_data, is_last_retry,
                   reqs, err, webhook_result, counts, inquired, committed, snapshot>>

\* One step of execute_workflow whose call succeeds (ok) or fails.
Step(ok) ==
    \/ ParseTrackingData(ok)
    \/ GetMerchantKeyStore(ok)
    \/ FindMerchantAccount(ok)
    \/ StatusInquiry(ok)
    \/ FinishTerminal(ok)
    \/ RetrySyncTask(ok)
    \/ UpdatePaymentAttempt(ok)
    \/ UpdatePaymentIntent(ok)
    \/ FindBusinessProfile(ok)

Next ==
    \/ Deliver
    \/ \E ok \in BOOLEAN : Step(ok)
    \/ MissingConnector
    \/ \E delivered \in BOOLEAN : TriggerPaymentsWebhook(delivered)
    \/ ReturnOk
    \/ ReturnErr
    \/ ErrorHandler
    \/ Crash

Spec == Init /\ [][Next]_vars

\* The job's life when the inquiry, the storage calls and the tracker calls
\* succeed and no worker crashes; the consumer keeps running what is runnable.
NextOk ==
    \/ Deliver
    \/ Step(TRUE)
    \/ MissingConnector
    \/ \E delivered \in BOOLEAN : TriggerPaymentsWebhook(delivered)
    \/ ReturnOk
    \/ ReturnErr
    \/ ErrorHandler

LiveSpec == Init /\ [][NextOk]_vars /\ WF_vars(NextOk)

\* ------------------------------------------------------------- properties

\* The terminal set as the retry workflow's description lists it.
TerminalSet ==
    {"RouterDeclined", "Charged", "AutoRefunded", "Voided", "VoidFailed",
     "CaptureFailed", "Failure"}

InquiryDone == Requested("payments_operation_core")
EndedOk == pc = "idle" /\ ret = "Ok"
Count(op) == Cardinality({i \in 1..Len(reqs) : reqs[i] = op})

\* The resolver's answer for the retry after the delivered job's retry_count.
ResolverAnswer == get_sync_process_schedule_time(config, process.retry_count + 1)

\* C1: once the inquiry has yielded a status of the terminal set, the invocation
\* writes nothing but the finish: attempt, intent, retry_count and
\* next_schedule_time stay as they were and no webhook is sent; and when it
\* has passed the match, its one request is the finish with COMPLETED_BY_PT,
\* which leaves the job Completed with that business status.
C1_TerminalFinishesOnly ==
    (InquiryDone /\ inquired.status \in TerminalSet)
    => /\ attempt = inquired
       /\ intent = intent0
       /\ webhook_result = "none"
       /\ job.retry_count = process.retry_count
       /\ job.schedule_time = process.schedule_time
       /\ ~Requested("retry_process") /\ ~Requested("finish_RETRIES_EXCEEDED")
       /\ ~Requested("update_payment_attempt") /\ ~Requested("update_payment_intent")
       /\ ~Requested("trigger_payments_webhook")
       /\ (pc = "return" \/ EndedOk)
          => /\ reqs = <<"payments_operation_core", "finish_COMPLETED_BY_PT">>
             /\ job.status = "Completed"
             /\ process.status # "Completed" => job.business_status = COMPLETED_BY_PT

C1_Witness ==
    /\ EndedOk
    /\ inquired.status = "VoidFailed"
    /\ job.status = "Completed" /\ job.business_status = COMPLETED_BY_PT
    /\ process.retry_count = 1

\* C2: an invocation on the last allowed retry whose inquiry yields Pending with
\* no connector transaction id: once retry_sync_task has returned the job is
\* finished with RETRIES_EXCEEDED; when the invocation has run to its end the
\* attempt is Failure, the intent is Failed and the webhook was attempted; the
\* webhook's outcome, delivered or failed, leaves the finished job as it is.
C2_Precondition ==
    /\ InquiryDone
    /\ inquired.status = "Pending"
    /\ inquired.connector_transaction_id = "none"
    /\ ResolverAnswer = None

C2_LastRetryEscalates ==
    C2_Precondition
    => /\ (is_last_retry # None \/ webhook_result # "none" \/ EndedOk)
          => /\ job.status = "Completed"
             /\ job.business_status = RETRIES_EXCEEDED
             /\ job.retry_count = process.retry_count
       /\ EndedOk
          => /\ attempt.status = "Failure"
             /\ intent.status = "Failed"
             /\ Count("trigger_payments_webhook") = 1
             /\ webhook_result \in {"delivered", "failed"}

C2_Witness ==
    /\ C2_Precondition
    /\ EndedOk
    /\ webhook_result = "delivered"
    /\ attempt.status = "Failure" /\ intent.status = "Failed"
    /\ job.business_status = RETRIES_EXCEEDED

\* retry_sync_task has been called in this invocation: its request to the
\* tracker is the one after the inquiry.
RetrySyncTaskCalled ==
    /\ InquiryDone
    /\ inquired.status \notin TerminalSet
    /\ inquired.connector # "none"
    /\ Len(reqs) >= 2

\* C3: non-terminal status and no schedule time for retry_count + 1:
\* retry_sync_task asks the tracker to finish the job with RETRIES_EXCEEDED,
\* asks for no reschedule, and reports true.
C3_ExhaustedFinishes ==
    (RetrySyncTaskCalled /\ ResolverAnswer = None)
    => /\ reqs[2] = "finish_RETRIES_EXCEEDED"
       /\ ~Requested("retry_process")
       /\ is_last_retry # Some(FALSE)
       /\ err # "tracker"
          => /\ is_last_retry = Some(TRUE)
             /\ job.status = "Completed"
             /\ job.business_status = RETRIES_EXCEEDED
             /\ job.retry_count = process.retry_count

C3_Witness ==
    /\ RetrySyncTaskCalled
    /\ ResolverAnswer = None
    /\ inquired.status = "Started"
    /\ is_last_retry = Some(TRUE)
    /\ process.retry_count = 2
    /\ EndedOk

\* C4: non-terminal status and a schedule time for retry_count + 1:
\* retry_sync_task asks the tracker for exactly one reschedule, which sets the
\* status Retry, retry_count one higher and the next run time to the returned
\* time; it does not finish the job and reports false.
C4_ScheduledRetries ==
    (RetrySyncTaskCalled /\ ResolverAnswer # None)
    => /\ reqs[2] = "retry_process"
       /\ Count("retry_process") = 1
       /\ ~Requested("finish_RETRIES_EXCEEDED")
       /\ ~Requested("finish_COMPLETED_BY_PT")
       /\ is_last_retry # Some(TRUE)
       /\ err # "tracker"
          => /\ is_last_retry = Some(FALSE)
             /\ job.status = "Retry"
             /\ job.retry_count = process.retry_count + 1
             /\ job.schedule_time = ResolverAnswer

C4_Witness ==
    /\ RetrySyncTaskCalled
    /\ ResolverAnswer = Some([seconds_from_now |-> 40])
    /\ job.status = "Retry"
    /\ job.retry_count = 3
    /\ job.schedule_time = Some([seconds_from_now |-> 40])
    /\ EndedOk

\* C5: over deliveries and re-deliveries of the job, with a crash possible after
\* any step, the escalation updates the attempt to Failure at most once, the
\* intent to Failed at most once, and attempts the webhook at most once.
C5_EscalationNotDuplicated ==
    /\ counts.attempt_update <= 1
    /\ counts.intent_update <= 1
    /\ counts.webhook <= 1

C5_Witness ==
    /\ counts = [attempt_update |-> 1, intent_update |-> 1, webhook |-> 1]
    /\ crashes = 2
    /\ EndedOk
    /\ inquired.status = "Failure"

\* What one uninterrupted, successful run leaves behind, given the job as
\* delivered, the inquiry's result and the intent as delivered.
UninterruptedResult(pt, inq, int) ==
    LET last == get_sync_process_schedule_time(config, pt.retry_count + 1) = None
        escalates == /\ inq.status \notin TerminalSet
                     /\ last
                     /\ inq.status = "Pending"
                     /\ inq.connector_transaction_id = "none"
    IN  [job |-> IF inq.status \in TerminalSet
                 THEN finish_process_with_business_status(pt, COMPLETED_BY_PT)
                 ELSE IF last
                 THEN finish_process_with_business_status(pt, RETRIES_EXCEEDED)
                 ELSE retry_process(pt, pt,
                          get_sync_process_schedule_time(config, pt.retry_count + 1)),
         attempt |-> IF escalates THEN [inq EXCEPT !.status = "Failure"] ELSE inq,
         intent |-> IF escalates
                    THEN [status |-> "Failed",
                          incremental_authorization_allowed |-> FALSE]
                    ELSE int]

\* C6: an invocation that has not committed its job transition, running or
\* crashed, has left the job and the intent as delivered and the attempt changed
\* by nothing but the inquiry's own result, which a repeated inquiry can return
\* again; and every invocation that runs to its end, a first run or the re-run
\* of one that crashed before committing, leaves job, attempt and intent as one
\* uninterrupted run on the same inquiry result does.
C6_RerunBeforeCommitIsSafe ==
    /\ (~committed /\ ret \in {"none", "Crashed"})
       => /\ job = process
          /\ intent = intent0
          /\ attempt = (IF InquiryDone THEN inquired ELSE attempt0)
          /\ attempt \in InquiryResults(attempt)
          /\ webhook_result = "none"
    /\ EndedOk
       => [job |-> job, attempt |-> attempt, intent |-> intent]
          = UninterruptedResult(process, inquired, intent0)

C6_Witness ==
    /\ rerun
    /\ EndedOk
    /\ attempt0.status = "Started"
    /\ inquired.status = "Pending"
    /\ job.business_status = RETRIES_EXCEEDED
    /\ attempt.status = "Failure"
    /\ intent.status = "Failed"

RECURSIVE TotalRepeatCount(_)
\* The sum of the repeat counts of a mapping's frequency buckets.
TotalRepeatCount(frequencies) ==
    IF frequencies = << >> THEN 0
    ELSE Head(frequencies)[2] + TotalRepeatCount(Tail(frequencies))

CompletedByWorkflow ==
    /\ job.status = "Completed"
    /\ job.business_status \in {COMPLETED_BY_PT, RETRIES_EXCEEDED}

RescheduledAtMostN ==
    job.retry_count <= TotalRepeatCount(LoadedMapping(config).frequencies)

EscalationCase ==
    /\ is_last_retry = Some(TRUE)
    /\ inquired.status = "Pending"
    /\ inquired.connector_transaction_id = "none"

EscalationStarted ==
    \/ pc \in {"update_attempt", "update_intent", "find_profile", "webhook"}
    \/ Requested("update_payment_attempt")
    \/ Requested("update_payment_intent")
    \/ Requested("trigger_payments_webhook")

\* C8: the escalation is entered only when retry_sync_task reported last retry,
\* the inquired status is Pending and no connector transaction id is recorded;
\* in every other case the invocation leaves the attempt as inquired and the
\* intent as delivered and attempts no webhook.
C8_EscalationOnlyWhenAllThree ==
    /\ EscalationStarted => EscalationCase
    /\ (InquiryDone /\ ~EscalationCase)
       => /\ attempt = inquired
          /\ intent = intent0
          /\ webhook_result = "none"
          /\ ~Requested("trigger_payments_webhook")

C8_Witness ==
    /\ EndedOk
    /\ is_last_retry = Some(TRUE)
    /\ inquired.status = "Pending"
    /\ inquired.connector_transaction_id = "txn_1"
    /\ attempt.status = "Pending"
    /\ intent.status = "Processing"

\* C9: a failed webhook delivery is swallowed: no error is returned and the
\* error handler is not called, the invocation goes on to return Ok, and the
\* job stays finished with RETRIES_EXCEEDED, never rescheduled.
C9_WebhookFailureSwallowed ==
    webhook_result = "failed"
    => /\ err = "none"
       /\ pc \in {"return", "idle"}
       /\ ret \in {"none", "Ok", "Crashed"}
       /\ ~Requested("consumer_error_handler")
       /\ ~Requested("retry_process")
       /\ job.status = "Completed"
       /\ job.business_status = RETRIES_EXCEEDED
       /\ job.retry_count = process.retry_count

C9_Witness ==
    /\ webhook_result = "failed"
    /\ EndedOk
    /\ job.business_status = RETRIES_EXCEEDED

EarlyErrors == {"parse_value", "key_store", "merchant_account", "inquiry"}

\* C10: when the payload, the key store, the merchant account or the inquiry
\* fails, execute_workflow has requested no retry and no finish, has written
\* nothing to attempt or intent and sent no webhook; the job is as delivered
\* until error_handler hands it to consumer_error_handler, which alone decides.
C10_EarlyErrorLeavesJobToHandler ==
    err \in EarlyErrors
    => /\ attempt = attempt0
       /\ intent = intent0
       /\ webhook_result = "none"
       /\ ~committed
       /\ \/ reqs = << >> /\ job = process /\ pc # "idle"
          \/ reqs = << >> /\ job = process /\ pc = "idle" /\ ret = "Crashed"
          \/ /\ reqs = <<"consumer_error_handler">>
             /\ pc = "idle" /\ ret = "Err"
             /\ job \in consumer_error_handler(process)

C10_Witness ==
    /\ err = "inquiry"
    /\ pc = "idle" /\ ret = "Err"
    /\ reqs = <<"consumer_error_handler">>
    /\ job.status = "Completed" /\ job.business_status = GLOBAL_FAILURE

\* ========================================================================
\* Routing helpers (crates/router/src/core/routing/helpers.rs)
\* ========================================================================

\* ------------------------------------------------- routing: bounds, values

\* Connector accounts stored for the merchant.
MaxAccounts == 1
\* Length of a top-level Priority or VolumeSplit list.
MaxList == 2
\* Length of a connector selection inside an Advanced program.
MaxSelection == 1
\* Rules of an Advanced program.
MaxRules == 2

Ok == [tag |-> "Ok", kind |-> "", message |-> << >>]
Err(kind, message) == [tag |-> "Err", kind |-> kind, message |-> message]

SeqsUpTo(S, n) == UNION {[1..k -> S] : k \in 0..n}

ConnectorNames == {"stripe", "adyen"}
MerchantConnectorIds == {"mca_1", "mca_2"}
ProfileIds == {"pro_1", "pro_2"}

\* MerchantConnectorAccount, the fields the validator reads, and `disabled`.
MerchantConnectorAccounts ==
    [connector_name : ConnectorNames,
     merchant_connector_id : MerchantConnectorIds,
     profile_id : {Some(p) : p \in ProfileIds},
     disabled : BOOLEAN]

Inventories == {accs \in SUBSET MerchantConnectorAccounts : Cardinality(accs) <= MaxAccounts}

\* RoutableConnectorChoice.
ConnectorChoices ==
    [connector : ConnectorNames, merchant_connector_id : {None, Some("mca_1")}]

\* ConnectorVolumeSplit: a choice and its weight.
VolumeSplits == [connector : ConnectorChoices, split : {50}]

Priority(list) == [kind |-> "Priority", list |-> list]
VolumeSplit(splits) == [kind |-> "VolumeSplit", list |-> splits]

\* ConnectorSelection: Priority or VolumeSplit, of up to n elements.
ConnectorSelections(n) ==
    {Priority(l) : l \in SeqsUpTo(ConnectorChoices, n)}
        \cup {VolumeSplit(l) : l \in SeqsUpTo(VolumeSplits, n)}

\* The program of an Advanced algorithm: the connector references of
\* ast::Program, its default selection and its rules' selections.
Programs ==
    [default_selection : ConnectorSelections(MaxSelection),
     rules : SeqsUpTo([connector_selection : ConnectorSelections(MaxSelection)],
                      MaxRules)]

\* RoutingAlgorithm.
RoutingAlgorithms ==
    {[kind |-> "Single", choice |-> c] : c \in ConnectorChoices}
        \cup ConnectorSelections(MaxList)
        \cup {[kind |-> "Advanced", program |-> p] : p \in Programs}

\* ------------------------------------------------------ routing: validator

\* StorageInterface::find_merchant_connector_account_by_merchant_id_and_disabled_list
\* over the merchant's stored accounts. Its flag is `get_disabled`: when set,
\* the disabled accounts are returned with the enabled ones; when clear, only
\* the accounts that are not disabled.
find_merchant_connector_account_by_merchant_id_and_disabled_list(accounts, get_disabled) ==
    IF get_disabled THEN accounts ELSE {mca \in accounts : ~mca.disabled}

\* The flag validate_connectors_in_routing_config passes.
GetDisabled == TRUE

\* name_mca_id_set ignoring the profile.
name_mca_id_set_AnyProfile(all_mcas, profile_id) ==
    {<<mca.connector_name, mca.merchant_connector_id>> : mca \in all_mcas}

name_mca_id_set(all_mcas, profile_id) ==
    {<<mca.connector_name, mca.merchant_connector_id>> :
        mca \in {m \in all_mcas : m.profile_id = Some(profile_id)}}

name_set(all_mcas, profile_id) ==
    {mca.connector_name : mca \in {m \in all_mcas : m.profile_id = Some(profile_id)}}

\* The two messages of check_connector_choice, as format! builds them.
NameAndIdNotFound(choice) ==
    <<"connector with name", choice.connector,
      "and merchant connector account id", choice.merchant_connector_id[1],
      "not found for the given profile">>
NameNotFound(choice) ==
    <<"connector with name", choice.connector, "not found for the given profile">>

check_connector_choice(all_mcas, profile_id, choice) ==
    IF choice.merchant_connector_id # None
    THEN IF <<choice.connector, choice.merchant_connector_id[1]>>
                \in name_mca_id_set(all_mcas, profile_id)
         THEN Ok
         ELSE Err("InvalidRequestData", NameAndIdNotFound(choice))
    ELSE IF choice.connector \in name_set(all_mcas, profile_id)
         THEN Ok
         ELSE Err("InvalidRequestData", NameNotFound(choice))

\* Choices that skips the splits of weight zero.
Choices_NonZeroSplits(selection) ==
    IF selection.kind = "VolumeSplit"
    THEN LET kept == SelectSeq(selection.list, LAMBDA split : split.split > 0)
         IN  [i \in 1..Len(kept) |-> kept[i].connector]
    ELSE selection.list

\* Choices(list): the connector choices of a Priority list (its elements) or
\* of a VolumeSplit list (each split's `connector`), in order.
Choices(selection) ==
    IF selection.kind = "VolumeSplit"
    THEN [i \in 1..Len(selection.list) |-> selection.list[i].connector]
    ELSE selection.list

\* `for choice in list { check_connector_choice(choice)?; }`
RECURSIVE check_each(_, _, _)
check_each(all_mcas, profile_id, list) ==
    IF list = << >> THEN Ok
    ELSE LET r == check_connector_choice(all_mcas, profile_id, Head(list))
         IN  IF r.tag = "Err" THEN r
             ELSE check_each(all_mcas, profile_id, Tail(list))

check_connector_selection(all_mcas, profile_id, selection) ==
    check_each(all_mcas, profile_id, Choices(selection))

\* `for rule in &program.rules { check_connector_selection(..)?; }`
RECURSIVE check_rules(_, _, _)
check_rules(all_mcas, profile_id, rules) ==
    IF rules = << >> THEN Ok
    ELSE LET r == check_connector_selection(all_mcas, profile_id,
                                            Head(rules).connector_selection)
         IN  IF r.tag = "Err" THEN r
             ELSE check_rules(all_mcas, profile_id, Tail(rules))

\* check_program with the rules checked before the default selection.
check_program_RulesFirst(all_mcas, profile_id, program) ==
    LET r == check_rules(all_mcas, profile_id, program.rules)
    IN  IF r.tag = "Err" THEN r
        ELSE check_connector_selection(all_mcas, profile_id, program.default_selection)

\* check_program that stops after the first rule.
check_program_FirstRuleOnly(all_mcas, profile_id, program) ==
    LET r == check_connector_selection(all_mcas, profile_id, program.default_selection)
    IN  IF r.tag = "Err" THEN r
        ELSE IF program.rules = << >> THEN Ok
             ELSE check_rules(all_mcas, profile_id, <<Head(program.rules)>>)

\* The Advanced arm of the match.
check_program(all_mcas, profile_id, program) ==
    LET r == check_connector_selection(all_mcas, profile_id, program.default_selection)
    IN  IF r.tag = "Err" THEN r
        ELSE check_rules(all_mcas, profile_id, program.rules)

\* The match over the algorithm's variants, on the fetched accounts.
check_routing_algorithm(all_mcas, profile_id, algorithm) ==
    CASE algorithm.kind = "Single" ->
            check_connector_choice(all_mcas, profile_id, algorithm.choice)
      [] algorithm.kind \in {"Priority", "VolumeSplit"} ->
            check_connector_selection(all_mcas, profile_id, algorithm)
      [] algorithm.kind = "Advanced" ->
            check_program(all_mcas, profile_id, algorithm.program)

\* validate_connectors_in_routing_config; `found` is whether the storage call
\* that fetches the accounts succeeded.
validate_connectors_in_routing_config(accounts, found, profile_id, algorithm) ==
    IF ~found
    THEN Err("MerchantConnectorAccountNotFound", << >>)
    ELSE check_routing_algorithm(
            find_merchant_connector_account_by_merchant_id_and_disabled_list(
                accounts, GetDisabled),
            profile_id, algorithm)

\* The routing helpers are called from the routing API, outside any payment
\* sync job: while they run, no job is delivered.
WorkflowIdle ==
    /\ job = << >>
    /\ attempt = << >>
    /\ intent = << >>
    /\ config = << >>
    /\ pc = "idle"
    /\ process = << >>
    /\ payment_data = << >>
    /\ is_last_retry = None
    /\ reqs = << >>
    /\ ret = "none"
    /\ err = "none"
    /\ webhook_result = "none"
    /\ lost = FALSE
    /\ crashes = 0
    /\ counts = << >>
    /\ attempt0 = << >>
    /\ intent0 = << >>
    /\ inquired = << >>
    /\ committed = FALSE
    /\ rerun = FALSE

workflow == <<job, attempt, intent, config, pc, process, payment_data, is_last_retry,
              reqs, ret, err, webhook_result, lost, crashes, counts, attempt0,
              intent0, inquired, committed, rerun>>

\* No process reads through a cache, the schedule resolver is not called,
\* MockDb is not used and no Hipay reply is converted.
NoReaders ==
    /\ cache = << >>
    /\ readers = << >>
    /\ resolver = << >>
    /\ organizations = << >>
    /\ clients = << >>
    /\ hipay = << >>

\* What the routing helpers never touch: a reading process's cache and reads,
\* the schedule resolver, MockDb and the Hipay connector.
elsewhere == <<cache, readers, resolver, organizations, clients, hipay>>

\* The profile the routing request is made for.
GivenProfile == "pro_1"

\* One call of the validator: any inventory of stored accounts, any algorithm.
ValidatorInit ==
    /\ WorkflowIdle
    /\ merchant_connector_accounts \in Inventories
    /\ routing_algorithm \in RoutingAlgorithms
    /\ validation = None
    /\ business_profile = << >>
    /\ merchant_account = << >>
    /\ redact_channel = << >>
    /\ activation = << >>
    /\ configs = << >>
    /\ callers = << >>
    /\ NoReaders

Validate(found) ==
    /\ validation = None
    /\ validation' = Some(validate_connectors_in_routing_config(
                            merchant_connector_accounts, found, GivenProfile,
                            routing_algorithm))
    /\ UNCHANGED <<workflow, merchant_connector_accounts, routing_algorithm,
                   business_profile, merchant_account, redact_channel, activation,
                   configs, callers, elsewhere>>

ValidatorNext == \E found \in BOOLEAN : Validate(found)

ValidatorSpec == ValidatorInit /\ [][ValidatorNext]_vars

\* ------------------------------------------------- routing: properties

\* The accounts the validator works on.
FetchedAccounts ==
    find_merchant_connector_account_by_merchant_id_and_disabled_list(
        merchant_connector_accounts, GetDisabled)

\* The accounts among them that belong to the given profile.
ProfileAccounts == {mca \in FetchedAccounts : mca.profile_id = Some(GivenProfile)}

\* A connector choice is present in the profile's connector sets.
Present(choice) ==
    \E mca \in ProfileAccounts :
        /\ mca.connector_name = choice.connector
        /\ choice.merchant_connector_id # None
              => mca.merchant_connector_id = choice.merchant_connector_id[1]

\* The connector choices of one selection, and of a whole algorithm.
SelectionLeaves(selection) ==
    {IF selection.kind = "VolumeSplit" THEN selection.list[i].connector
                                       ELSE selection.list[i] :
        i \in 1..Len(selection.list)}

Leaves(algorithm) ==
    CASE algorithm.kind = "Single" -> {algorithm.choice}
      [] algorithm.kind \in {"Priority", "VolumeSplit"} -> SelectionLeaves(algorithm)
      [] algorithm.kind = "Advanced" ->
            SelectionLeaves(algorithm.program.default_selection)
                \cup UNION {SelectionLeaves(algorithm.program.rules[i].connector_selection) :
                                i \in 1..Len(algorithm.program.rules)}

\* The validator has run on accounts it could fetch.
Validated == validation # None /\ validation[1].kind # "MerchantConnectorAccountNotFound"

\* C11: for every variant of RoutingAlgorithm, once the accounts are fetched,
\* validate_connectors_in_routing_config returns Ok exactly when every
\* connector choice of the algorithm (for Advanced: of the default selection
\* and of every rule's selection) is present in the profile's connector sets;
\* so an empty list is accepted and one absent choice anywhere fails it.
C11_OkIffEveryLeafPresent ==
    Validated =>
        (validation[1] = Ok <=> \A choice \in Leaves(routing_algorithm) : Present(choice))

\* An Advanced program with choices in its default selection and in a rule,
\* all present, is accepted.
C11_Witness ==
    /\ Validated
    /\ routing_algorithm.kind = "Advanced"
    /\ SelectionLeaves(routing_algorithm.program.default_selection) # {}
    /\ Len(routing_algorithm.program.rules) = 2
    /\ SelectionLeaves(routing_algorithm.program.rules[2].connector_selection) # {}
    /\ validation[1] = Ok

\* The connector choices of a selection and of an algorithm in document
\* order: a list in list order; an Advanced program's default selection, then
\* its rules in order, the elements of each selection in order.
SelectionSeq(selection) ==
    [i \in 1..Len(selection.list) |->
        IF selection.kind = "VolumeSplit" THEN selection.list[i].connector
                                          ELSE selection.list[i]]

RECURSIVE RulesSeq(_)
RulesSeq(rules) ==
    IF rules = << >> THEN << >>
    ELSE SelectionSeq(Head(rules).connector_selection) \o RulesSeq(Tail(rules))

LeafSeq(algorithm) ==
    CASE algorithm.kind = "Single" -> <<algorithm.choice>>
      [] algorithm.kind \in {"Priority", "VolumeSplit"} -> SelectionSeq(algorithm)
      [] algorithm.kind = "Advanced" ->
            SelectionSeq(algorithm.program.default_selection)
                \o RulesSeq(algorithm.program.rules)

\* The positions, in document order, of the choices that are not present.
InvalidAt(algorithm) ==
    {i \in 1..Len(LeafSeq(algorithm)) : ~Present(LeafSeq(algorithm)[i])}

FirstInvalid(algorithm) ==
    LeafSeq(algorithm)[CHOOSE i \in InvalidAt(algorithm) :
                            \A j \in InvalidAt(algorithm) : i <= j]

\* An error message names a choice: its connector name and, when the choice
\* has one, its merchant connector account id, and no id otherwise.
Names(message, choice) ==
    /\ Len(message) >= 3
    /\ message[2] = choice.connector
    /\ IF choice.merchant_connector_id # None
       THEN Len(message) = 5 /\ message[4] = choice.merchant_connector_id[1]
       ELSE Len(message) = 3
    /\ message[Len(message)] = "not found for the given profile"

\* C12: when the validation of fetched accounts fails, the error is an
\* invalid-request error that names the first connector choice, in document
\* order, that is not present: its connector name and, when present, its
\* merchant connector account id.
C12_ErrorNamesFirstInvalid ==
    Validated /\ validation[1].tag = "Err" =>
        /\ validation[1].kind = "InvalidRequestData"
        /\ Names(validation[1].message, FirstInvalid(routing_algorithm))

\* An Advanced program whose only absent choice is in its second rule, after
\* a default selection and a first rule that hold present choices, fails
\* naming that choice.
C12_Witness ==
    /\ Validated
    /\ routing_algorithm.kind = "Advanced"
    /\ Len(routing_algorithm.program.rules) = 2
    /\ SelectionLeaves(routing_algorithm.program.default_selection) # {}
    /\ SelectionLeaves(routing_algorithm.program.rules[1].connector_selection) # {}
    /\ InvalidAt(routing_algorithm) = {3}
    /\ validation[1].tag = "Err"
    /\ Names(validation[1].message,
             SelectionSeq(routing_algorithm.program.rules[2].connector_selection)[1])

\* ----------------------------------------------------- routing: activation

\* Activation calls explored per behaviour.
MaxActivations == 2

AlgorithmIds == {"alg_1", "alg_2"}
TransactionTypes == {"Payment", "Payout"}
MerchantId == "mer_1"

\* routing_types::RoutingAlgorithmRef naming one algorithm.
RoutingAlgorithmRef(id) == [algorithm_id |-> Some(id)]

\* Encode::encode_to_value: the JSON value of a ref.
encode_to_value(ref) == [json |-> ref]

\* cache::CacheKind: a kind and its key.
CacheKind(kind, key) == <<kind, key>>

\* The key the caller of update_merchant_active_algorithm_ref hands in.
config_key == CacheKind("Config", "routing_config_" \o MerchantId)

\* routing_cache_key of update_business_profile_active_algorithm_ref.
routing_cache_key(merchant_id, profile_id) ==
    CacheKind("Routing", "routing_config_" \o merchant_id \o "_" \o profile_id)

\* The algorithms activation is tried with: a single choice, or a priority
\* list of at most one choice.
SmallAlgorithms ==
    {[kind |-> "Single", choice |-> c] : c \in ConnectorChoices}
        \cup {Priority(l) : l \in {<< >>} \cup {<<c>> : c \in ConnectorChoices}}

\* The stored accounts activation is tried against: none, or one enabled
\* account of the given profile (what the validator makes of an inventory is
\* ValidatorSpec's matter; an activation only depends on its verdict).
ActivationInventories ==
    { {},
      {[connector_name |-> "stripe", merchant_connector_id |-> "mca_1",
        profile_id |-> Some(GivenProfile), disabled |-> FALSE]} }

ActivationInit ==
    /\ WorkflowIdle
    /\ merchant_connector_accounts \in ActivationInventories
    /\ routing_algorithm = << >>
    /\ validation = None
    /\ business_profile = [profile_id |-> GivenProfile, merchant_id |-> MerchantId,
                           profile_name |-> "default",
                           routing_algorithm |-> None,
                           payout_routing_algorithm |-> None]
    /\ merchant_account = [merchant_id |-> MerchantId, merchant_name |-> "merchant",
                           routing_algorithm |-> None,
                           payout_routing_algorithm |-> None]
    /\ redact_channel = << >>
    /\ activation = [pc |-> "idle", op |-> "none",
                     algorithm_id |-> RoutingAlgorithmRef("alg_1"),
                     transaction_type |-> "Payment", ref_value |-> None,
                     log |-> << >>, result |-> None, calls |-> 0,
                     before |-> << >>]
    /\ configs = << >>
    /\ callers = << >>
    /\ NoReaders

\* What an activation call leaves alone besides the records it writes.
idle_stores == <<workflow, merchant_connector_accounts, configs, callers, elsewhere>>

\* The call returns r.
Returns(r) == activation' = [activation EXCEPT !.pc = "idle", !.result = Some(r)]

InternalServerError(printable) == Err("InternalServerError", <<printable>>)

\* The routing API is asked to activate `algorithm`, stored under `id`, for
\* the merchant or for the profile.
Activate(op, algorithm, id, transaction_type) ==
    /\ activation.pc = "idle"
    /\ activation.calls < MaxActivations
    /\ op = "merchant" => transaction_type = "Payment"
    /\ routing_algorithm' = algorithm
    /\ validation' = None
    /\ activation' = [pc |-> "validate", op |-> op,
                      algorithm_id |-> RoutingAlgorithmRef(id),
                      transaction_type |-> transaction_type, ref_value |-> None,
                      log |-> << >>, result |-> None,
                      calls |-> activation.calls + 1,
                      before |-> <<merchant_account, business_profile, redact_channel>>]
    /\ UNCHANGED <<idle_stores, business_profile, merchant_account, redact_channel>>

\* The caller that validates and then activates without looking at the
\* validator's result.
ValidateBeforeActivation_IgnoresResult(found) ==
    /\ activation.pc = "validate"
    /\ validation' = Some(validate_connectors_in_routing_config(
                            merchant_connector_accounts, found, GivenProfile,
                            routing_algorithm))
    /\ activation' = [activation EXCEPT !.pc = "encode"]
    /\ UNCHANGED <<idle_stores, routing_algorithm, business_profile, merchant_account,
                   redact_channel>>

\* The caller validates the algorithm before committing it as active, and
\* surfaces a validation error at once.
ValidateBeforeActivation(found) ==
    /\ activation.pc = "validate"
    /\ LET r == validate_connectors_in_routing_config(
                    merchant_connector_accounts, found, GivenProfile,
                    routing_algorithm)
       IN  /\ validation' = Some(r)
           /\ IF r = Ok THEN activation' = [activation EXCEPT !.pc = "encode"]
                        ELSE Returns(r)
    /\ UNCHANGED <<idle_stores, routing_algorithm, business_profile, merchant_account,
                   redact_channel>>

\* update_merchant_active_algorithm_ref, split at its await points.

MerchantEncodeRef(ok) ==
    /\ activation.pc = "encode" /\ activation.op = "merchant"
    /\ IF ok
       THEN activation' = [activation EXCEPT
                !.ref_value = Some(encode_to_value(activation.algorithm_id)),
                !.pc = "write"]
       ELSE Returns(InternalServerError(
                "Failed converting routing algorithm ref to json value"))
    /\ UNCHANGED <<idle_stores, routing_algorithm, validation, business_profile,
                   merchant_account, redact_channel>>

\* db.update_specific_fields_in_merchant with MerchantAccountUpdate::Update:
\* routing_algorithm is the only field that is Some.
MerchantUpdate(ok) ==
    /\ activation.pc = "write" /\ activation.op = "merchant"
    /\ IF ok
       THEN /\ merchant_account' =
                  [merchant_account EXCEPT !.routing_algorithm = activation.ref_value]
            /\ activation' = [activation EXCEPT !.pc = "publish",
                                                !.log = Append(@, "write")]
       ELSE /\ Returns(InternalServerError(
                  "Failed to update routing algorithm ref in merchant account"))
            /\ UNCHANGED merchant_account
    /\ UNCHANGED <<idle_stores, routing_algorithm, validation, business_profile,
                   redact_channel>>

\* MerchantPublish that logs a failed publish and returns Ok.
MerchantPublish_BestEffort(ok) ==
    /\ activation.pc = "publish" /\ activation.op = "merchant"
    /\ redact_channel' = IF ok THEN Append(redact_channel, config_key)
                               ELSE redact_channel
    /\ activation' = [activation EXCEPT !.pc = "idle", !.result = Some(Ok),
                            !.log = IF ok THEN Append(@, "publish") ELSE @]
    /\ UNCHANGED <<idle_stores, routing_algorithm, validation, business_profile,
                   merchant_account>>

\* cache::publish_into_redact_channel(.., [config_key]), then Ok(()).
MerchantPublish(ok) ==
    /\ activation.pc = "publish" /\ activation.op = "merchant"
    /\ IF ok
       THEN /\ redact_channel' = Append(redact_channel, config_key)
            /\ activation' = [activation EXCEPT !.pc = "idle", !.result = Some(Ok),
                                                !.log = Append(@, "publish")]
       ELSE /\ Returns(InternalServerError("Failed to invalidate the config cache"))
            /\ UNCHANGED redact_channel
    /\ UNCHANGED <<idle_stores, routing_algorithm, validation, business_profile,
                   merchant_account>>

\* update_business_profile_active_algorithm_ref, split at its await points.

ProfileEncodeRef(ok) ==
    /\ activation.pc = "encode" /\ activation.op = "profile"
    /\ IF ok
       THEN activation' = [activation EXCEPT
                !.ref_value = Some(encode_to_value(activation.algorithm_id)),
                !.pc = "write"]
       ELSE Returns(InternalServerError("Failed to convert routing ref to value"))
    /\ UNCHANGED <<idle_stores, routing_algorithm, validation, business_profile,
                   merchant_account, redact_channel>>

\* ProfileUpdateFields that sets both refs whatever the transaction type.
ProfileUpdateFields_Both(transaction_type, ref_val) == <<Some(ref_val), Some(ref_val)>>

\* The (routing_algorithm, payout_routing_algorithm) pair of the update.
ProfileUpdateFields(transaction_type, ref_val) ==
    IF transaction_type = "Payment" THEN <<Some(ref_val), None>>
                                    ELSE <<None, Some(ref_val)>>

\* db.update_business_profile_by_profile_id with BusinessProfileUpdate::Update:
\* a field that is None in the update keeps its stored value.
ProfileUpdate(ok) ==
    /\ activation.pc = "write" /\ activation.op = "profile"
    /\ IF ok
       THEN LET fields == ProfileUpdateFields(activation.transaction_type,
                                              activation.ref_value[1])
            IN  /\ business_profile' =
                      [business_profile EXCEPT
                          !.routing_algorithm =
                              IF fields[1] # None THEN fields[1] ELSE @,
                          !.payout_routing_algorithm =
                              IF fields[2] # None THEN fields[2] ELSE @]
                /\ activation' = [activation EXCEPT !.pc = "publish",
                                                    !.log = Append(@, "write")]
       ELSE /\ Returns(InternalServerError(
                  "Failed to update routing algorithm ref in business profile"))
            /\ UNCHANGED business_profile
    /\ UNCHANGED <<idle_stores, routing_algorithm, validation, merchant_account,
                   redact_channel>>

\* ProfilePublish that returns Ok without publishing.
ProfilePublish_Skipped(ok) ==
    /\ activation.pc = "publish" /\ activation.op = "profile"
    /\ activation' = [activation EXCEPT !.pc = "idle", !.result = Some(Ok)]
    /\ UNCHANGED <<idle_stores, routing_algorithm, validation, business_profile,
                   merchant_account, redact_channel>>

\* ProfilePublish that puts the profile back as it was when the publish fails.
ProfilePublish_RollsBack(ok) ==
    /\ activation.pc = "publish" /\ activation.op = "profile"
    /\ IF ok
       THEN /\ redact_channel' =
                  Append(redact_channel,
                         routing_cache_key(business_profile.merchant_id,
                                           business_profile.profile_id))
            /\ activation' = [activation EXCEPT !.pc = "idle", !.result = Some(Ok),
                                                !.log = Append(@, "publish")]
            /\ UNCHANGED business_profile
       ELSE /\ Returns(InternalServerError("Failed to invalidate routing cache"))
            /\ business_profile' = activation.before[2]
            /\ UNCHANGED redact_channel
    /\ UNCHANGED <<idle_stores, routing_algorithm, validation, merchant_account>>

\* cache::publish_into_redact_channel(.., [routing_cache_key]), then Ok(()).
ProfilePublish(ok) ==
    /\ activation.pc = "publish" /\ activation.op = "profile"
    /\ IF ok
       THEN /\ redact_channel' =
                  Append(redact_channel,
                         routing_cache_key(business_profile.merchant_id,
                                           business_profile.profile_id))
            /\ activation' = [activation EXCEPT !.pc = "idle", !.result = Some(Ok),
                                                !.log = Append(@, "publish")]
       ELSE /\ Returns(InternalServerError("Failed to invalidate routing cache"))
            /\ UNCHANGED redact_channel
    /\ UNCHANGED <<idle_stores, routing_algorithm, validation, business_profile,
                   merchant_account>>

ActivationNext ==
    \/ \E op \in {"merchant", "profile"}, algorithm \in SmallAlgorithms,
          id \in AlgorithmIds, transaction_type \in TransactionTypes :
            Activate(op, algorithm, id, transaction_type)
    \/ \E found \in BOOLEAN : ValidateBeforeActivation(found)
    \/ \E ok \in BOOLEAN : MerchantEncodeRef(ok)
    \/ \E ok \in BOOLEAN : MerchantUpdate(ok)
    \/ \E ok \in BOOLEAN : MerchantPublish(ok)
    \/ \E ok \in BOOLEAN : ProfileEncodeRef(ok)
    \/ \E ok \in BOOLEAN : ProfileUpdate(ok)
    \/ \E ok \in BOOLEAN : ProfilePublish(ok)

ActivationSpec == ActivationInit /\ [][ActivationNext]_vars

\* ----------------------------------------- routing: activation properties

\* The active refs and the invalidation channel.
ActiveState == <<merchant_account, business_profile, redact_channel>>

\* This activation's validation returned an error.
ValidationFailed == validation # None /\ validation[1].tag = "Err"

\* C13: an activation whose validation returns an error ends with that
\* error, and for that activation neither the merchant account's nor the
\* business profile's active ref is written and nothing is published: the
\* previously active algorithm id stays as it was.
C13_FailedValidationActivatesNothing ==
    ValidationFailed =>
        /\ activation.pc = "idle"
        /\ activation.result = validation
        /\ activation.log = << >>
        /\ ActiveState = activation.before

\* After one algorithm was made active for the profile, the activation of
\* another that fails validation leaves the first one active.
C13_Witness ==
    /\ ValidationFailed
    /\ validation[1].kind = "InvalidRequestData"
    /\ activation.calls = 2
    /\ business_profile.routing_algorithm
            = Some(encode_to_value(RoutingAlgorithmRef("alg_1")))
    /\ activation.algorithm_id = RoutingAlgorithmRef("alg_2")
    /\ activation.op = "profile"
    /\ activation.transaction_type = "Payment"

\* ------------------------------------------- routing: validator, accounts

\* The stored accounts of the given profile that match a connector choice.
Matching(choice) ==
    {mca \in merchant_connector_accounts :
        /\ mca.profile_id = Some(GivenProfile)
        /\ mca.connector_name = choice.connector
        /\ choice.merchant_connector_id # None
              => mca.merchant_connector_id = choice.merchant_connector_id[1]}

\* The choice has a matching account in the profile, and every one of them
\* is disabled.
OnlyDisabledMatch(choice) ==
    /\ Matching(choice) # {}
    /\ \A mca \in Matching(choice) : mca.disabled

\* C14: disabled connector accounts are excluded from validation: an
\* algorithm with a connector choice whose only matching accounts in the
\* profile are disabled is rejected.
C14_DisabledAccountsExcluded ==
    Validated /\ (\E choice \in Leaves(routing_algorithm) : OnlyDisabledMatch(choice))
        => validation[1].tag = "Err"

\* C15: a single connector choice that carries a merchant connector account
\* id is accepted exactly when a fetched account of the given profile has
\* that very (connector name, account id) pair: the id under another name,
\* the name with another id, or the pair on an account of another profile do
\* not count. A choice without an id is accepted exactly when a fetched
\* account of the given profile has that connector name.
C15_PinnedPairOrBareName ==
    Validated /\ routing_algorithm.kind = "Single" =>
        LET choice == routing_algorithm.choice
            of_profile == {mca \in FetchedAccounts : mca.profile_id = Some(GivenProfile)}
        IN  IF choice.merchant_connector_id # None
            THEN validation[1] = Ok <=>
                    \E mca \in of_profile :
                        /\ mca.connector_name = choice.connector
                        /\ mca.merchant_connector_id = choice.merchant_connector_id[1]
            ELSE validation[1] = Ok <=>
                    \E mca \in of_profile : mca.connector_name = choice.connector

\* The very pair exists, but on an account of another profile of the
\* merchant: the choice is rejected.
C15_Witness ==
    /\ Validated
    /\ routing_algorithm.kind = "Single"
    /\ routing_algorithm.choice.merchant_connector_id # None
    /\ \E mca \in FetchedAccounts :
          /\ mca.profile_id # Some(GivenProfile)
          /\ mca.connector_name = routing_algorithm.choice.connector
          /\ mca.merchant_connector_id = routing_algorithm.choice.merchant_connector_id[1]
    /\ validation[1].tag = "Err"

\* ------------------------------------------------- routing: config store

\* Calls of the default-config helpers per behaviour, over all callers.
MaxCalls == 2

Callers == {"a", "b"}

OkWith(value) == [tag |-> "Ok", kind |-> "", message |-> << >>, value |-> value]

get_routing_dictionary_key(merchant_id) == "routing_dict_" \o merchant_id

get_default_config_key(merchant_id, transaction_type) ==
    IF transaction_type = "Payment" THEN "routing_default_" \o merchant_id
                                    ELSE "routing_default_po_" \o merchant_id

\* The connector lists the default config is updated with.
DefaultConfigLists ==
    { << [connector |-> "stripe", merchant_connector_id |-> None] >>,
      << [connector |-> "adyen", merchant_connector_id |-> Some("mca_1")],
         [connector |-> "stripe", merchant_connector_id |-> None] >> }

\* Encode::encode_to_string_of_json of a list: the text of a JSON array.
encode_to_string_of_json(list) == [text |-> "array", elements |-> list]

\* A stored text that is JSON but no array of connector choices.
InvalidStructure == [text |-> "object", elements |-> << >>]

\* StringExt::parse_struct("Vec<RoutableConnectors>").
parse_struct(stored) ==
    IF stored.text = "array" THEN OkWith(stored.elements)
    ELSE Err("ParsingError", <<"Vec<RoutableConnectors>">>)

\* The configs table: rows of key and config, `key` being its primary key.
Rows(table, key) == {i \in 1..Len(table) : table[i].key = key}

\* ConfigInterface::find_config_by_key: the row, or none (not found).
find_config_by_key(table, key) ==
    IF Rows(table, key) = {} THEN None
    ELSE Some(table[CHOOSE i \in Rows(table, key) : \A j \in Rows(table, key) : i <= j])

\* ConfigInterface::insert_config: a second row for a key is refused.
insert_config(table, new_config) ==
    IF Rows(table, new_config.key) # {}
    THEN [table |-> table, result |-> Err("DuplicateValue", <<new_config.key>>)]
    ELSE [table |-> Append(table, new_config), result |-> Ok]

\* ConfigInterface::update_config_by_key with ConfigUpdate::Update: the row's
\* config is replaced; no row, not found.
update_config_by_key(table, key, stored) ==
    IF Rows(table, key) = {}
    THEN [table |-> table, result |-> Err("ValueNotFound", <<key>>)]
    ELSE [table |-> [i \in 1..Len(table) |->
                        IF table[i].key = key THEN [table[i] EXCEPT !.config = stored]
                                              ELSE table[i]],
          result |-> Ok]

\* routing_types::RoutingDictionaryRecord of the algorithm stored under `id`.
RoutingDictionaryRecord(id) == [id |-> id, name |-> "rule_" \o id]

\* routing_types::RoutingDictionary values a caller may hand in: the type asks
\* nothing of active_id.
RoutingDictionaries ==
    [merchant_id : {MerchantId},
     active_id : {None} \cup {Some(id) : id \in AlgorithmIds},
     records : {<< >>, <<RoutingDictionaryRecord("alg_1")>>}]

\* The dictionary a merchant starts with: no record, none active.
EmptyDictionary == [merchant_id |-> MerchantId, active_id |-> None, records |-> << >>]

\* The algorithm definitions update_routing_algorithm is called with.
StoredAlgorithms ==
    {[kind |-> "Single", choice |-> [connector |-> n, merchant_connector_id |-> None]] :
        n \in ConnectorNames}

\* Encode::encode_to_string_of_json of a struct: the text of a JSON object.
encode_struct_to_string_of_json(value) == [text |-> "object", elements |-> value]

\* A caller that is not in a call.
NoCall == [op |-> "none", key |-> "", argument |-> << >>, result |-> None,
           inserted |-> FALSE, fault |-> FALSE, table0 |-> << >>, written |-> 0]

ConfigInit ==
    /\ WorkflowIdle
    /\ merchant_connector_accounts = {}
    /\ routing_algorithm = << >>
    /\ validation = None
    /\ business_profile = << >>
    /\ merchant_account = << >>
    /\ redact_channel = << >>
    /\ activation = << >>
    /\ configs \in
          {<< >>} \cup
          {<<[key |-> get_default_config_key(MerchantId, t), config |-> c]>> :
              t \in TransactionTypes,
              c \in {encode_to_string_of_json(l) : l \in DefaultConfigLists \cup {<< >>}}
                        \cup {InvalidStructure}}
    /\ callers = [c \in Callers |->
                    [pc |-> "idle", calls |-> 0, cur |-> NoCall, prev |-> NoCall]]
    /\ NoReaders

\* What the default-config helpers leave alone.
no_config_state == <<workflow, merchant_connector_accounts, routing_algorithm,
                     validation, business_profile, merchant_account, redact_channel,
                     activation, elsewhere>>

RECURSIVE SumCalls(_)
SumCalls(cs) ==
    IF cs = {} THEN 0
    ELSE LET c == CHOOSE x \in cs : TRUE
         IN  callers[c].calls + SumCalls(cs \ {c})

\* The calls begun so far.
CallsMade == SumCalls(Callers)

\* Caller c begins a call of `op` with `argument`, the value it hands in.
Begin(c, op, key, argument, first) ==
    /\ callers[c].pc = "idle"
    /\ CallsMade < MaxCalls
    /\ callers' = [callers EXCEPT ![c] =
            [pc |-> first, calls |-> @.calls + 1,
             cur |-> [op |-> op, key |-> key, argument |-> argument,
                      result |-> None, inserted |-> FALSE, fault |-> FALSE,
                      table0 |-> configs, written |-> 0],
             prev |-> @.cur]]

\* Caller c's call returns r; `inserted`: it has inserted a row; `fault`: a
\* step of it failed for a reason outside the table's contents.
Return(c, r, inserted, fault) ==
    callers' = [callers EXCEPT ![c].pc = "idle", ![c].cur.result = Some(r),
                               ![c].cur.inserted = inserted, ![c].cur.fault = fault]

\* The calls made so far, finished or in flight.
Calls == {callers[c].cur : c \in Callers} \cup {callers[c].prev : c \in Callers}

\* The position of the next write in the order the store performs them.
NextWrite == 1 + Cardinality({call \in Calls : call.written > 0})

\* Caller c's update has been written and returns Ok.
ReturnWritten(c) ==
    callers' = [callers EXCEPT ![c].pc = "idle", ![c].cur.result = Some(Ok),
                               ![c].cur.written = NextWrite]

\* get_merchant_default_config, split at its await points.

GetMerchantDefaultConfig(c, transaction_type) ==
    /\ Begin(c, "get", get_default_config_key(MerchantId, transaction_type), << >>, "find")
    /\ UNCHANGED <<no_config_state, configs>>

\* FindConfig that takes the not-found arm whatever the lookup returned.
FindConfig_AlwaysCreates(c, ok) ==
    /\ callers[c].pc = "find"
    /\ callers' = [callers EXCEPT ![c].pc = "insert"]
    /\ UNCHANGED <<no_config_state, configs>>

\* db.find_config_by_key(&key).await and the Ok and other-error arms.
FindConfig(c, ok) ==
    /\ callers[c].pc = "find"
    /\ LET maybe_config == find_config_by_key(configs, callers[c].cur.key)
       IN  IF ~ok
           THEN Return(c, InternalServerError("Error fetching default config for merchant"),
                       FALSE, TRUE)
           ELSE IF maybe_config # None
           THEN LET parsed == parse_struct(maybe_config[1].config)
                IN  IF parsed.tag = "Ok"
                    THEN Return(c, parsed, FALSE, FALSE)
                    ELSE Return(c, InternalServerError(
                                    "Merchant default config has invalid structure"),
                                FALSE, FALSE)
           ELSE callers' = [callers EXCEPT ![c].pc = "insert"]
    /\ UNCHANGED <<no_config_state, configs>>

\* The not-found arm: serialize the empty list, db.insert_config(..).await.
InsertConfig(c, outcome) ==
    /\ callers[c].pc = "insert"
    /\ CASE outcome = "serialize" ->
              /\ Return(c, InternalServerError(
                        "Error while creating and serializing new merchant default config"),
                        FALSE, TRUE)
              /\ UNCHANGED configs
         [] outcome = "db" ->
              /\ Return(c, InternalServerError(
                        "Error inserting new default routing config into DB"),
                        FALSE, TRUE)
              /\ UNCHANGED configs
         [] outcome = "ok" ->
              LET new_config_conns == << >>
                  new_config == [key |-> callers[c].cur.key,
                                 config |-> encode_to_string_of_json(new_config_conns)]
                  inserted == insert_config(configs, new_config)
              IN  /\ configs' = inserted.table
                  /\ IF inserted.result = Ok
                     THEN Return(c, OkWith(new_config_conns), TRUE, FALSE)
                     ELSE Return(c, InternalServerError(
                                "Error inserting new default routing config into DB"),
                                FALSE, FALSE)
    /\ UNCHANGED no_config_state

\* update_merchant_default_config, split at its await point.

UpdateMerchantDefaultConfig(c, connectors, transaction_type) ==
    /\ Begin(c, "update", get_default_config_key(MerchantId, transaction_type),
             connectors, "update")
    /\ UNCHANGED <<no_config_state, configs>>

\* UpdateConfig that reports Ok whatever the write did.
UpdateConfig_AlwaysOk(c, outcome) ==
    /\ callers[c].pc = "update"
    /\ Return(c, Ok, FALSE, outcome # "ok")
    /\ UNCHANGED <<no_config_state, configs>>

\* Serialize the list, db.update_config_by_key(&key, Update{config}).await.
UpdateConfig(c, outcome) ==
    /\ callers[c].pc = "update"
    /\ CASE outcome = "serialize" ->
              /\ Return(c, InternalServerError(
                        "Unable to serialize merchant default routing config during update"),
                        FALSE, TRUE)
              /\ UNCHANGED configs
         [] outcome = "db" ->
              /\ Return(c, InternalServerError(
                        "Error updating the default routing config in DB"),
                        FALSE, TRUE)
              /\ UNCHANGED configs
         [] outcome = "ok" ->
              LET config_str == encode_to_string_of_json(callers[c].cur.argument)
                  updated == update_config_by_key(configs, callers[c].cur.key, config_str)
              IN  /\ configs' = updated.table
                  /\ IF updated.result = Ok
                     THEN ReturnWritten(c)
                     ELSE Return(c, InternalServerError(
                                "Error updating the default routing config in DB"),
                                FALSE, FALSE)
    /\ UNCHANGED no_config_state

\* update_merchant_routing_dictionary, split at its await point.

UpdateMerchantRoutingDictionary(c, dictionary) ==
    /\ Begin(c, "update_dictionary", get_routing_dictionary_key(MerchantId),
             dictionary, "update_dictionary")
    /\ UNCHANGED <<no_config_state, configs>>

\* UpdateDictionary that keeps the stored records and takes active_id only.
UpdateDictionary_Merges(c, outcome) ==
    /\ callers[c].pc = "update_dictionary"
    /\ LET row == find_config_by_key(configs, callers[c].cur.key)
           merged == IF row = None THEN callers[c].cur.argument
                     ELSE [row[1].config.elements EXCEPT
                              !.active_id = callers[c].cur.argument.active_id]
           updated == update_config_by_key(configs, callers[c].cur.key,
                                           encode_struct_to_string_of_json(merged))
       IN  /\ configs' = IF outcome = "ok" THEN updated.table ELSE configs
           /\ IF updated.result = Ok /\ outcome = "ok"
              THEN ReturnWritten(c)
              ELSE Return(c, InternalServerError("Error saving routing dictionary to DB"),
                          FALSE, outcome # "ok")
    /\ UNCHANGED no_config_state

\* Serialize the dictionary, db.update_config_by_key(&key, Update{config}).await.
UpdateDictionary(c, outcome) ==
    /\ callers[c].pc = "update_dictionary"
    /\ CASE outcome = "serialize" ->
              /\ Return(c, InternalServerError(
                        "Unable to serialize routing dictionary during update"),
                        FALSE, TRUE)
              /\ UNCHANGED configs
         [] outcome = "db" ->
              /\ Return(c, InternalServerError("Error saving routing dictionary to DB"),
                        FALSE, TRUE)
              /\ UNCHANGED configs
         [] outcome = "ok" ->
              LET dictionary_str ==
                      encode_struct_to_string_of_json(callers[c].cur.argument)
                  updated == update_config_by_key(configs, callers[c].cur.key,
                                                  dictionary_str)
              IN  /\ configs' = updated.table
                  /\ IF updated.result = Ok
                     THEN ReturnWritten(c)
                     ELSE Return(c, InternalServerError(
                                "Error saving routing dictionary to DB"),
                                FALSE, FALSE)
    /\ UNCHANGED no_config_state

\* update_routing_algorithm, split at its await point.

UpdateRoutingAlgorithm(c, algorithm_id, algorithm) ==
    /\ Begin(c, "update_algorithm", algorithm_id, algorithm, "update_algorithm")
    /\ UNCHANGED <<no_config_state, configs>>

\* Serialize the algorithm, db.update_config_by_key(&algorithm_id, ..).await.
UpdateAlgorithm(c, outcome) ==
    /\ callers[c].pc = "update_algorithm"
    /\ CASE outcome = "serialize" ->
              /\ Return(c, InternalServerError(
                        "Unable to serialize routing algorithm to string"),
                        FALSE, TRUE)
              /\ UNCHANGED configs
         [] outcome = "db" ->
              /\ Return(c, InternalServerError(
                        "Error updating the routing algorithm in DB"),
                        FALSE, TRUE)
              /\ UNCHANGED configs
         [] outcome = "ok" ->
              LET algorithm_str ==
                      encode_struct_to_string_of_json(callers[c].cur.argument)
                  updated == update_config_by_key(configs, callers[c].cur.key,
                                                  algorithm_str)
              IN  /\ configs' = updated.table
                  /\ IF updated.result = Ok
                     THEN ReturnWritten(c)
                     ELSE Return(c, InternalServerError(
                                "Error updating the routing algorithm in DB"),
                                FALSE, FALSE)
    /\ UNCHANGED no_config_state

StoreOutcomes == {"ok", "serialize", "db"}

ConfigNext ==
    \E c \in Callers :
        \/ \E t \in TransactionTypes : GetMerchantDefaultConfig(c, t)
        \/ \E ok \in BOOLEAN : FindConfig(c, ok)
        \/ \E outcome \in StoreOutcomes : InsertConfig(c, outcome)
        \/ \E l \in DefaultConfigLists, t \in TransactionTypes :
                UpdateMerchantDefaultConfig(c, l, t)
        \/ \E outcome \in StoreOutcomes : UpdateConfig(c, outcome)

ConfigSpec == ConfigInit /\ [][ConfigNext]_vars

\* The three update helpers against a store that holds the merchant's payment
\* default config, its routing dictionary and the algorithm alg_1.
UpdateInit ==
    /\ WorkflowIdle
    /\ merchant_connector_accounts = {}
    /\ routing_algorithm = << >>
    /\ validation = None
    /\ business_profile = << >>
    /\ merchant_account = << >>
    /\ redact_channel = << >>
    /\ activation = << >>
    /\ configs =
          << [key |-> get_default_config_key(MerchantId, "Payment"),
              config |-> encode_to_string_of_json(<< >>)],
             [key |-> get_routing_dictionary_key(MerchantId),
              config |-> encode_struct_to_string_of_json(EmptyDictionary)],
             [key |-> "alg_1",
              config |-> encode_struct_to_string_of_json(
                            [kind |-> "Priority", list |-> << >>])] >>
    /\ callers = [c \in Callers |->
                    [pc |-> "idle", calls |-> 0, cur |-> NoCall, prev |-> NoCall]]
    /\ NoReaders

UpdateNext ==
    \E c \in Callers :
        \/ \E l \in DefaultConfigLists, t \in TransactionTypes :
                UpdateMerchantDefaultConfig(c, l, t)
        \/ \E outcome \in StoreOutcomes : UpdateConfig(c, outcome)
        \/ \E dictionary \in RoutingDictionaries :
                UpdateMerchantRoutingDictionary(c, dictionary)
        \/ \E outcome \in StoreOutcomes : UpdateDictionary(c, outcome)
        \/ \E algorithm \in StoredAlgorithms :
                UpdateRoutingAlgorithm(c, "alg_1", algorithm)
        \/ \E outcome \in StoreOutcomes : UpdateAlgorithm(c, outcome)

UpdateSpec == UpdateInit /\ [][UpdateNext]_vars

\* ------------------------------------------ routing: config store properties

\* Caller c has made two calls, both returned, and no other caller any.
TwoCallsAlone(c) ==
    /\ callers[c].calls = 2
    /\ callers[c].pc = "idle"
    /\ \A o \in Callers \ {c} : callers[o].calls = 0

\* No step of the call failed for a reason outside the table's contents.
NoFault(call) == ~call.fault

\* C16: get_merchant_default_config is an idempotent get-or-create. Called
\* twice for the same key with nothing in between and no storage failure,
\* the key being absent at first: the first call inserts the empty list and
\* returns it, the second returns the same empty list without inserting, and
\* the table holds exactly one row for the key, the empty list.
C16_GetOrCreateIdempotent ==
    \A c \in Callers :
        LET first == callers[c].prev
            second == callers[c].cur
        IN  /\ TwoCallsAlone(c)
            /\ first.op = "get" /\ second.op = "get"
            /\ first.key = second.key
            /\ Rows(first.table0, first.key) = {}
            /\ NoFault(first) /\ NoFault(second)
            =>  /\ first.result = Some(OkWith(<< >>))
                /\ first.inserted
                /\ second.result = first.result
                /\ ~second.inserted
                /\ Cardinality(Rows(configs, first.key)) = 1
                /\ find_config_by_key(configs, first.key)[1].config
                        = encode_to_string_of_json(<< >>)

\* Both calls have returned the empty list and the row is there.
C16_Witness ==
    \E c \in Callers :
        /\ TwoCallsAlone(c)
        /\ callers[c].prev.op = "get" /\ callers[c].cur.op = "get"
        /\ callers[c].prev.key = callers[c].cur.key
        /\ callers[c].prev.table0 = << >>
        /\ callers[c].prev.inserted
        /\ callers[c].cur.result = Some(OkWith(<< >>))
        /\ Len(configs) = 1

\* Callers a and b each made their first call, a get for the same key that
\* was absent when either began, and both calls returned with no storage
\* failure.
ConcurrentFirstUse(a, b) ==
    /\ a # b
    /\ callers[a].calls = 1 /\ callers[b].calls = 1
    /\ callers[a].pc = "idle" /\ callers[b].pc = "idle"
    /\ callers[a].cur.op = "get" /\ callers[b].cur.op = "get"
    /\ callers[a].cur.key = callers[b].cur.key
    /\ Rows(callers[a].cur.table0, callers[a].cur.key) = {}
    /\ Rows(callers[b].cur.table0, callers[b].cur.key) = {}
    /\ NoFault(callers[a].cur) /\ NoFault(callers[b].cur)

\* C17: the empty default config is created atomically and first use is no
\* error: two callers that call get_merchant_default_config concurrently on
\* the same absent key both return the empty list, and one row is stored.
C17_ConcurrentFirstUseSucceeds ==
    \A a, b \in Callers :
        ConcurrentFirstUse(a, b) =>
            /\ callers[a].cur.result = Some(OkWith(<< >>))
            /\ callers[b].cur.result = Some(OkWith(<< >>))
            /\ Cardinality(Rows(configs, callers[a].cur.key)) = 1

\* Caller c is the only one that has called so far, and its call returned.
ReturnedAlone(c) ==
    /\ callers[c].pc = "idle"
    /\ callers[c].calls >= 1
    /\ \A o \in Callers \ {c} : callers[o].calls = 0

\* C18: update_merchant_default_config overwrites the stored list. With no
\* other caller in between: when it returns Ok for list L the row of the key
\* holds L and no other row changed, and a get_merchant_default_config that
\* follows returns exactly L; when serialization or the write fails it
\* returns an internal error and the table is as it was.
C18_UpdateOverwrites ==
    \A c \in Callers :
        LET call == callers[c].cur
            before == callers[c].prev
        IN  /\ ReturnedAlone(c) /\ call.op = "update" =>
                IF call.result = Some(Ok)
                THEN /\ find_config_by_key(configs, call.key) # None
                     /\ parse_struct(find_config_by_key(configs, call.key)[1].config)
                            = OkWith(call.argument)
                     /\ Len(configs) = Len(call.table0)
                     /\ \A i \in 1..Len(configs) :
                            configs[i].key # call.key => configs[i] = call.table0[i]
                ELSE /\ call.result[1].tag = "Err"
                     /\ call.result[1].kind = "InternalServerError"
                     /\ configs = call.table0
            /\ ReturnedAlone(c) /\ call.op = "get" /\ NoFault(call)
                    /\ before.op = "update" /\ before.result = Some(Ok)
                    /\ before.key = call.key
                =>  call.result = Some(OkWith(before.argument))

\* A stored list was overwritten with another one, which the get that
\* follows returns.
C18_Witness ==
    \E c \in Callers :
        /\ ReturnedAlone(c)
        /\ callers[c].cur.op = "get"
        /\ callers[c].prev.op = "update"
        /\ callers[c].prev.result = Some(Ok)
        /\ callers[c].prev.key = callers[c].cur.key
        /\ callers[c].prev.table0 # << >>
        /\ callers[c].prev.table0[1].config.text = "array"
        /\ callers[c].prev.table0[1].config.elements # callers[c].prev.argument
        /\ callers[c].cur.result = Some(OkWith(callers[c].prev.argument))

\* The activation helper, entered after the validation, has returned r.
HelperReturned(r) ==
    /\ activation.pc = "idle"
    /\ activation.op \in {"merchant", "profile"}
    /\ validation = Some(Ok)
    /\ activation.result = Some(r)

\* The cache key an activation has to invalidate.
AffectedKey ==
    IF activation.op = "merchant"
    THEN config_key
    ELSE routing_cache_key(business_profile.merchant_id, business_profile.profile_id)

\* The record field an activation writes.
WrittenRef ==
    IF activation.op = "merchant" THEN merchant_account.routing_algorithm
    ELSE IF activation.transaction_type = "Payment"
         THEN business_profile.routing_algorithm
         ELSE business_profile.payout_routing_algorithm

\* C19: update_merchant_active_algorithm_ref and
\* update_business_profile_active_algorithm_ref write the algorithm ref into
\* the merchant account / business profile record first and publish the
\* invalidation of the affected cache key second: whenever either returns Ok
\* it has done exactly the write followed by the publish, the record holds
\* the encoded ref and the key is the last one published; and a publish is
\* never attempted before the write.
C19_WriteThenPublish ==
    /\ HelperReturned(Ok) =>
          /\ activation.log = <<"write", "publish">>
          /\ WrittenRef = Some(encode_to_value(activation.algorithm_id))
          /\ redact_channel = Append(activation.before[3], AffectedKey)
    /\ activation # << >> /\ activation.pc = "publish" =>
          /\ activation.log = <<"write">>
          /\ WrittenRef = Some(encode_to_value(activation.algorithm_id))

\* A payout activation for the profile has returned Ok.
C19_Witness ==
    /\ HelperReturned(Ok)
    /\ activation.op = "profile"
    /\ activation.transaction_type = "Payout"
    /\ activation.log = <<"write", "publish">>
    /\ Len(redact_channel) = 1

\* The helper has returned after its write without having published: its
\* publish failed.
PublishFailed ==
    /\ activation.pc = "idle"
    /\ activation.log = <<"write">>

\* C20: the cache-invalidation publish is not best-effort: when the publish
\* of an activation fails, the helper returns an internal error that names
\* the invalidation as the failed step, never Ok.
C20_PublishFailureIsAnError ==
    PublishFailed =>
        /\ activation.result # Some(Ok)
        /\ activation.result[1].tag = "Err"
        /\ activation.result[1].kind = "InternalServerError"
        /\ activation.result[1].message =
              IF activation.op = "merchant"
              THEN <<"Failed to invalidate the config cache">>
              ELSE <<"Failed to invalidate routing cache">>
        /\ redact_channel = activation.before[3]

\* The merchant account holds the new ref, the publish failed and the
\* helper returned an error.
C20_Witness ==
    /\ PublishFailed
    /\ activation.op = "merchant"
    /\ merchant_account.routing_algorithm = Some(encode_to_value(activation.algorithm_id))
    /\ merchant_account.routing_algorithm # activation.before[1].routing_algorithm
    /\ activation.result[1].tag = "Err"

\* ------------------------------------------- routing: readers with a cache

\* Reads of the active algorithm explored per behaviour.
MaxReads == 2

\* The cache key a reader of the profile's active payment algorithm uses: the
\* key update_business_profile_active_algorithm_ref publishes.
ReaderKey == routing_cache_key(MerchantId, GivenProfile)

\* The cached value of `key`, if any.
get_val(entries, key) ==
    IF \E e \in entries : e.key = key
    THEN Some((CHOOSE e \in entries : e.key = key).value)
    ELSE None

\* The cache with `key` holding `value`.
push(entries, key, value) ==
    {e \in entries : e.key # key} \cup {[key |-> key, value |-> value]}

\* The cache without `key`.
remove(entries, key) == {e \in entries : e.key # key}

\* A profile and a process that reads its active payment algorithm through
\* an in-memory cache, empty at start.
CacheInit ==
    /\ WorkflowIdle
    /\ merchant_connector_accounts \in ActivationInventories
    /\ routing_algorithm = << >>
    /\ validation = None
    /\ business_profile = [profile_id |-> GivenProfile, merchant_id |-> MerchantId,
                           profile_name |-> "default",
                           routing_algorithm |-> None,
                           payout_routing_algorithm |-> None]
    /\ merchant_account = [merchant_id |-> MerchantId, merchant_name |-> "merchant",
                           routing_algorithm |-> None,
                           payout_routing_algorithm |-> None]
    /\ redact_channel = << >>
    /\ activation = [pc |-> "idle", op |-> "none",
                     algorithm_id |-> RoutingAlgorithmRef("alg_1"),
                     transaction_type |-> "Payment", ref_value |-> None,
                     log |-> << >>, result |-> None, calls |-> 0,
                     before |-> << >>]
    /\ configs = << >>
    /\ callers = << >>
    /\ cache = {}
    /\ readers = [pc |-> "idle", fetched |-> None, observed |-> << >>,
                  reads |-> 0, consumed |-> 0]
    /\ resolver = << >>
    /\ organizations = << >>
    /\ clients = << >>
    /\ hipay = << >>

\* What a reading process leaves alone: every store and the activation call.
stores == <<workflow, merchant_connector_accounts, routing_algorithm, validation,
            business_profile, merchant_account, redact_channel, activation,
            configs, callers, resolver, organizations, clients, hipay>>

\* A read of the active algorithm: a cached value is used as it is; on a
\* miss the reader goes to the store.
ReadCache ==
    /\ readers.pc = "idle"
    /\ readers.reads < MaxReads
    /\ LET cached == get_val(cache, ReaderKey)
       IN  IF cached # None
           THEN readers' = [readers EXCEPT !.observed = Append(@, cached[1]),
                                           !.reads = @ + 1]
           ELSE readers' = [readers EXCEPT !.pc = "fetch", !.reads = @ + 1]
    /\ UNCHANGED <<stores, cache>>

\* The reader's store read of the profile's routing ref: a suspension point.
ReadStore ==
    /\ readers.pc = "fetch"
    /\ readers' = [readers EXCEPT !.pc = "fill",
                                  !.fetched = Some(business_profile.routing_algorithm)]
    /\ UNCHANGED <<stores, cache>>

\* The reader fills the cache with what it fetched and uses it.
FillCache ==
    /\ readers.pc = "fill"
    /\ cache' = push(cache, ReaderKey, readers.fetched[1])
    /\ readers' = [readers EXCEPT !.pc = "idle", !.fetched = None,
                                  !.observed = Append(@, readers.fetched[1])]
    /\ UNCHANGED stores

\* The reading process receives the next published invalidation and drops
\* the named key from its cache.
Invalidate ==
    /\ readers.consumed < Len(redact_channel)
    /\ cache' = remove(cache, redact_channel[readers.consumed + 1])
    /\ readers' = [readers EXCEPT !.consumed = @ + 1]
    /\ UNCHANGED stores

CacheNext ==
    \/ \E algorithm \in SmallAlgorithms, id \in AlgorithmIds :
            Activate("profile", algorithm, id, "Payment")
    \/ \E found \in BOOLEAN : ValidateBeforeActivation(found)
    \/ \E ok \in BOOLEAN : ProfileEncodeRef(ok)
    \/ \E ok \in BOOLEAN : ProfileUpdate(ok)
    \/ \E ok \in BOOLEAN : ProfilePublish(ok)
    \/ ReadCache
    \/ ReadStore
    \/ FillCache
    \/ Invalidate

CacheSpec == CacheInit /\ [][CacheNext]_vars

\* The last activation returned Ok and its invalidation has reached the
\* reading process.
ActivationPublished ==
    /\ activation.pc = "idle"
    /\ activation.result = Some(Ok)
    /\ readers.consumed = Len(redact_channel)

\* The cache holds, for the reader's key, a value other than the stored one.
StaleCache ==
    \E e \in cache : e.key = ReaderKey /\ e.value # business_profile.routing_algorithm

\* C21: once an activation has returned Ok and its invalidation has been
\* delivered, the reader's cache holds no value other than the stored routing
\* ref: a stale value is observable only between the store write and the
\* publish.
C21_StaleOnlyInWindow == ActivationPublished => ~StaleCache

\* ------------------------------------- routing: profile activation fields

\* The profile-level helper has written the business profile.
ProfileWritten ==
    /\ activation.op = "profile"
    /\ \E i \in 1..Len(activation.log) : activation.log[i] = "write"

\* The ref the call in flight stores.
ActivatedRef == Some(encode_to_value(activation.algorithm_id))

\* C22: a profile-level activation writes the ref into the field its
\* transaction type chooses, routing_algorithm for Payment and
\* payout_routing_algorithm for Payout, and leaves the other ref and every
\* other field of the profile as they were before the call.
C22_TransactionTypeChoosesField ==
    ProfileWritten =>
        LET old == activation.before[2]
        IN  business_profile =
                IF activation.transaction_type = "Payment"
                THEN [old EXCEPT !.routing_algorithm = ActivatedRef]
                ELSE [old EXCEPT !.payout_routing_algorithm = ActivatedRef]

\* A Payout activation has been written over a profile whose payment ref
\* names another algorithm: the two refs differ afterwards.
C22_Witness ==
    /\ ProfileWritten
    /\ activation.transaction_type = "Payout"
    /\ business_profile.payout_routing_algorithm = ActivatedRef
    /\ business_profile.routing_algorithm # None
    /\ business_profile.routing_algorithm # business_profile.payout_routing_algorithm

\* ------------------------------------------ routing: dictionary properties

\* The stored routing dictionaries.
StoredDictionaries ==
    {configs[i].config.elements :
        i \in Rows(configs, get_routing_dictionary_key(MerchantId))}

\* active_id, if present, names a record of the dictionary.
ActiveIdReferencesRecord(dictionary) ==
    dictionary.active_id # None =>
        \E i \in 1..Len(dictionary.records) :
            dictionary.records[i].id = dictionary.active_id[1]

\* C23: in every stored routing dictionary, active_id, if present, names a
\* record of the same dictionary, whatever update_merchant_routing_dictionary
\* calls have been made.
C23_ActiveIdReferencesRecord ==
    \A dictionary \in StoredDictionaries : ActiveIdReferencesRecord(dictionary)

\* -------------------------------------------- routing: last writer wins

\* The text an update call stores: the serialized value it was handed.
StoredText(call) ==
    IF call.op = "update" THEN encode_to_string_of_json(call.argument)
                          ELSE encode_struct_to_string_of_json(call.argument)

\* The calls that have written `key`.
Writers(key) == {call \in Calls : call.written > 0 /\ call.key = key}

\* The call that wrote `key` last.
LastWriter(key) ==
    CHOOSE call \in Writers(key) : \A other \in Writers(key) : other.written <= call.written

\* Every call made so far is still on record (a caller's record holds its
\* current and its previous call).
AllCallsOnRecord == \A c \in Callers : callers[c].calls <= 2

\* C24: whatever the interleaving of the updates of a key, its stored value is
\* the serialized value of the update written last, whole: no part of an
\* earlier update or of the value stored before survives in it.
C24_LastWriterWins ==
    AllCallsOnRecord =>
        \A i \in 1..Len(configs) :
            Writers(configs[i].key) # {} =>
                configs[i].config = StoredText(LastWriter(configs[i].key))

\* Two callers updated the dictionary concurrently, each starting from the
\* same stored dictionary with a value of its own: the store holds the later
\* write and the earlier one is lost.
C24_Witness ==
    \E a, b \in Callers :
        LET first == callers[a].cur
            last == callers[b].cur
            key == get_routing_dictionary_key(MerchantId)
        IN  /\ a # b
            /\ first.key = key /\ last.key = key
            /\ first.written = 1 /\ last.written = 2
            /\ first.table0 = last.table0
            /\ first.argument.records # last.argument.records
            /\ first.argument.active_id # last.argument.active_id
            /\ \E i \in Rows(configs, key) :
                    /\ configs[i].config = StoredText(last)
                    /\ configs[i].config # StoredText(first)

\* ------------------------------------------ the schedule resolver, alone

\* The largest retry number the resolver is asked about.
MaxRetryNumber == 7

\* Mappings a deployment may have configured for a connector: those of the
\* workflow, the default, and ones whose first bucket repeats zero times,
\* whose maximum is zero, and with three buckets.
ResolverMappings ==
    Mappings \cup
    { DefaultMapping,
      [start_after |-> 10, frequencies |-> << <<20, 0>>, <<40, 2>> >>,
       max_retries_count |-> 3],
      [start_after |-> 10, frequencies |-> << <<20, 1>> >>, max_retries_count |-> 0],
      [start_after |-> 30, frequencies |-> << <<15, 1>>, <<45, 2>>, <<90, 1>> >>,
       max_retries_count |-> 5] }

\* What the config store can hold under `pt_mapping_{connector}`.
ResolverEntries ==
    { [found |-> FALSE, parses |-> FALSE, mapping |-> DefaultMapping],
      [found |-> TRUE, parses |-> FALSE, mapping |-> DefaultMapping] }
    \cup { [found |-> TRUE, parses |-> TRUE, mapping |-> m] : m \in ResolverMappings }

\* One call of get_sync_process_schedule_time: any entry, any retry number.
ResolverInit ==
    /\ WorkflowIdle
    /\ merchant_connector_accounts = {}
    /\ routing_algorithm = << >>
    /\ validation = << >>
    /\ business_profile = << >>
    /\ merchant_account = << >>
    /\ redact_channel = << >>
    /\ activation = << >>
    /\ configs = << >>
    /\ callers = << >>
    /\ cache = << >>
    /\ readers = << >>
    /\ resolver \in [cfg : ResolverEntries, retry_count : 0..MaxRetryNumber,
                     result : {None}]
    /\ organizations = << >>
    /\ clients = << >>
    /\ hipay = << >>

\* GetSyncProcessScheduleTime that hands the config error to its caller.
GetSyncProcessScheduleTime_Propagates ==
    /\ resolver.result = None
    /\ resolver' = [resolver EXCEPT !.result =
            IF resolver.cfg.found /\ resolver.cfg.parses
            THEN Some(OkWith(get_sync_process_schedule_time(resolver.cfg,
                                                            resolver.retry_count)))
            ELSE Some(Err("ProcessTrackerError", <<"Redis Mapping Error">>))]
    /\ UNCHANGED <<workflow, merchant_connector_accounts, routing_algorithm,
                   validation, business_profile, merchant_account, redact_channel,
                   activation, configs, callers, cache, readers, organizations,
                   clients, hipay>>

\* get_sync_process_schedule_time: Ok(get_time_from_delta(time_delta)).
GetSyncProcessScheduleTime ==
    /\ resolver.result = None
    /\ resolver' = [resolver EXCEPT !.result =
            Some(OkWith(get_sync_process_schedule_time(resolver.cfg,
                                                       resolver.retry_count)))]
    /\ UNCHANGED <<workflow, merchant_connector_accounts, routing_algorithm,
                   validation, business_profile, merchant_account, redact_channel,
                   activation, configs, callers, cache, readers, organizations,
                   clients, hipay>>

ResolverNext == GetSyncProcessScheduleTime

ResolverSpec == ResolverInit /\ [][ResolverNext]_vars

\* ----------------------------------------- schedule resolver: properties

\* The call has returned.
Resolved == resolver.result # None

\* The mapping the call worked with.
ResolverMapping == LoadedMapping(resolver.cfg)

\* The delay, in seconds, of the schedule time the call returned; none when
\* it returned no schedule time.
ResolvedDelay ==
    IF resolver.result[1].value = None THEN None
    ELSE Some(resolver.result[1].value[1].seconds_from_now)

\* The mapping has a first bucket.
HasBucket == ResolverMapping.frequencies # << >>

\* C25 as stated: for any mapping the delay for retry_count 0 is start_after
\* and the delay for retry_count 1 is the interval of the first bucket.
C25_FirstBucketForAnyMapping ==
    Resolved =>
        /\ resolver.retry_count = 0 =>
                ResolvedDelay = Some(ResolverMapping.start_after)
        /\ (resolver.retry_count = 1 /\ HasBucket) =>
                ResolvedDelay = Some(ResolverMapping.frequencies[1][1])

\* C25: the delay for retry_count 0 is the mapping's start_after; the delay
\* for retry_count 1 is the interval of the first bucket when that bucket
\* repeats at least once and max_retries_count is at least 1, as in the
\* default mapping.
C25_StartAfterThenFirstBucket ==
    Resolved =>
        /\ resolver.retry_count = 0 =>
                ResolvedDelay = Some(ResolverMapping.start_after)
        /\ (/\ resolver.retry_count = 1
            /\ HasBucket
            /\ ResolverMapping.frequencies[1][2] >= 1
            /\ ResolverMapping.max_retries_count >= 1) =>
                ResolvedDelay = Some(ResolverMapping.frequencies[1][1])

\* The two calls of test_get_default_schedule_time's kind on a configured
\* mapping: retry_count 1 answered with the first bucket's interval, which
\* differs from start_after.
C25_Witness ==
    /\ Resolved
    /\ resolver.cfg.found /\ resolver.cfg.parses
    /\ resolver.retry_count = 1
    /\ HasBucket
    /\ ResolvedDelay = Some(ResolverMapping.frequencies[1][1])
    /\ ResolvedDelay # Some(ResolverMapping.start_after)

\* C26: for a retry_count greater than the mapping's max_retries_count the
\* resolver returns no schedule time, whatever the buckets still hold.
C26_BeyondMaxRetriesIsNone ==
    (Resolved /\ resolver.retry_count > ResolverMapping.max_retries_count) =>
        ResolvedDelay = None

\* A retry number beyond max_retries_count that the buckets would still
\* cover has been answered.
C26_Witness ==
    /\ Resolved
    /\ resolver.retry_count > ResolverMapping.max_retries_count
    /\ TotalRepeatCount(ResolverMapping.frequencies) >= resolver.retry_count
    /\ ResolvedDelay = None

\* The entry is missing or unreadable, or does not deserialize.
ConfigFailure == ~resolver.cfg.found \/ ~resolver.cfg.parses

\* C27: get_sync_process_schedule_time never returns Err; when the
\* pt_mapping entry is missing, unreadable or does not deserialize, it returns
\* Ok with the schedule decision of the default mapping.
C27_ConfigFailureFallsBackToDefault ==
    Resolved =>
        /\ resolver.result[1].tag = "Ok"
        /\ ConfigFailure =>
              resolver.result[1].value =
                  get_time_from_delta(get_schedule_time(DefaultMapping,
                                                        resolver.retry_count))

\* An entry that does not deserialize has been answered from the default
\* mapping with a schedule time.
C27_Witness ==
    /\ Resolved
    /\ resolver.cfg.found /\ ~resolver.cfg.parses
    /\ resolver.retry_count = 2
    /\ resolver.result[1] = OkWith(Some([seconds_from_now |-> 300]))

\* The repeat counts of buckets 1..i, added up.
RECURSIVE CumulativeCount(_, _)
CumulativeCount(frequencies, i) ==
    IF i = 0 THEN 0 ELSE CumulativeCount(frequencies, i - 1) + frequencies[i][2]

\* The buckets whose cumulative repeat count reaches retry number n.
Reaching(frequencies, n) ==
    {i \in 1..Len(frequencies) : CumulativeCount(frequencies, i) >= n}

\* The interval of the first bucket, in list order, whose cumulative repeat
\* count is at least n; none when n exceeds the total repeat count.
BucketInterval(frequencies, n) ==
    IF Reaching(frequencies, n) = {} THEN None
    ELSE LET i == CHOOSE j \in Reaching(frequencies, n) :
                        \A k \in Reaching(frequencies, n) : j <= k
         IN  Some(frequencies[i][1])

\* C28 as stated: for every retry number n >= 1 the resolver returns the
\* interval of the first bucket whose cumulative repeat count is at least n,
\* and none when n exceeds the total repeat count.
C28_BucketWalkForEveryRetry ==
    (Resolved /\ resolver.retry_count >= 1) =>
        ResolvedDelay = BucketInterval(ResolverMapping.frequencies, resolver.retry_count)

\* C28: for a retry number n >= 1 that is not beyond max_retries_count the
\* resolver returns the interval of the first bucket whose cumulative repeat
\* count is at least n, and none when n exceeds the total repeat count; beyond
\* max_retries_count it returns none. With {start_after 60, buckets
\* [(300, 5)], max_retries_count 5}: retry 1 and retry 5 give 300, retry 6
\* gives none.
C28_BucketWalkUpToMaxRetries ==
    (Resolved /\ resolver.retry_count >= 1) =>
        /\ ResolvedDelay =
              IF resolver.retry_count > ResolverMapping.max_retries_count THEN None
              ELSE BucketInterval(ResolverMapping.frequencies, resolver.retry_count)
        /\ ResolverMapping = DefaultMapping =>
              ResolvedDelay = IF resolver.retry_count <= 5 THEN Some(300) ELSE None

\* A retry number answered from the second bucket: the first bucket's repeat
\* count is used up and the second bucket's is not.
C28_Witness ==
    /\ Resolved
    /\ Len(ResolverMapping.frequencies) >= 3
    /\ resolver.retry_count = 3
    /\ CumulativeCount(ResolverMapping.frequencies, 1) < 3
    /\ CumulativeCount(ResolverMapping.frequencies, 2) >= 3
    /\ ResolvedDelay = Some(ResolverMapping.frequencies[2][1])
    /\ ResolvedDelay # Some(ResolverMapping.frequencies[1][1])

\* --------------------------------------- workflow: order within one run

\* The job transition requests and the escalation writes, as `reqs` names them.
TransitionRequests ==
    {"finish_" \o COMPLETED_BY_PT, "finish_" \o RETRIES_EXCEEDED, "retry_process"}
EscalationWrites ==
    <<"update_payment_attempt", "update_payment_intent", "trigger_payments_webhook">>

\* The positions of this invocation's requests that are in set S.
Positions(S) == {i \in 1..Len(reqs) : reqs[i] \in S}

\* The escalation writes of this invocation, in the order they were issued.
RECURSIVE Issued(_)
Issued(n) ==
    IF n = 0 THEN << >>
    ELSE IF \E k \in 1..3 : reqs[n] = EscalationWrites[k]
         THEN Append(Issued(n - 1), reqs[n])
         ELSE Issued(n - 1)

\* C29: within one invocation the status inquiry precedes every job
\* transition request; at most one transition request is issued, and exactly
\* one by an invocation that returns Ok; the escalation writes come after the
\* finish with RETRIES_EXCEEDED, as attempt update, intent update, webhook, in
\* that order and once each.
C29_StepsAreSequential ==
    /\ \A i \in Positions(TransitionRequests) :
            \E j \in 1..(i - 1) : reqs[j] = "payments_operation_core"
    /\ Cardinality(Positions(TransitionRequests)) <= 1
    /\ EndedOk => Cardinality(Positions(TransitionRequests)) = 1
    /\ \A i \in 1..Len(reqs) :
            (\E k \in 1..3 : reqs[i] = EscalationWrites[k]) =>
                \E j \in 1..(i - 1) : reqs[j] = "finish_" \o RETRIES_EXCEEDED
    /\ Issued(Len(reqs)) = SubSeq(EscalationWrites, 1, Len(Issued(Len(reqs))))

\* An invocation has returned Ok after the inquiry, the finish of an
\* exhausted job and the three escalation writes, in that order.
C29_Witness ==
    /\ EndedOk
    /\ reqs = <<"payments_operation_core", "finish_" \o RETRIES_EXCEEDED,
                "update_payment_attempt", "update_payment_intent",
                "trigger_payments_webhook">>

\* -------------------------------------------- routing: weights of splits

\* The weights a split may carry, zero and more than a whole included.
Weights == {0, 50, 100}

\* The selection with its split weights replaced in every way.
ReweightedSelections(selection) ==
    IF selection.kind = "VolumeSplit"
    THEN {VolumeSplit([i \in 1..Len(selection.list) |->
                          [connector |-> selection.list[i].connector,
                           split |-> w[i]]]) :
              w \in [1..Len(selection.list) -> Weights]}
    ELSE {selection}

RECURSIVE ReweightedRules(_)
ReweightedRules(rules) ==
    IF rules = << >> THEN {<< >>}
    ELSE {<<[connector_selection |-> s]>> \o rest :
              s \in ReweightedSelections(Head(rules).connector_selection),
              rest \in ReweightedRules(Tail(rules))}

\* The algorithms that differ from `algorithm` in split weights only.
Reweighted(algorithm) ==
    CASE algorithm.kind = "Single" -> {algorithm}
      [] algorithm.kind = "Advanced" ->
            {[kind |-> "Advanced",
              program |-> [default_selection |-> d, rules |-> r]] :
                d \in ReweightedSelections(algorithm.program.default_selection),
                r \in ReweightedRules(algorithm.program.rules)}
      [] OTHER -> ReweightedSelections(algorithm)

\* C30: the validation result of an algorithm is the result of every
\* algorithm that differs from it in split weights only, weights of zero and
\* weights that do not add up to 100 included.
C30_WeightsPlayNoPart ==
    validation # None =>
        \A other \in Reweighted(routing_algorithm) :
            validate_connectors_in_routing_config(
                merchant_connector_accounts,
                validation[1].kind # "MerchantConnectorAccountNotFound",
                GivenProfile, other) = validation[1]

\* An Advanced program whose default selection is a volume split has been
\* rejected for a connector choice of that split; it has other weightings.
C30_Witness ==
    /\ Validated
    /\ routing_algorithm.kind = "Advanced"
    /\ routing_algorithm.program.default_selection.kind = "VolumeSplit"
    /\ Len(routing_algorithm.program.default_selection.list) >= 1
    /\ validation[1].tag = "Err"
    /\ ~Present(routing_algorithm.program.default_selection.list[1].connector)
    /\ Cardinality(Reweighted(routing_algorithm)) >= 3

\* ------------------------------------- workflow: failures while escalating

\* The job is finished; by this invocation's finish with RETRIES_EXCEEDED
\* unless it had been finished before it was delivered again.
JobFinishedAsExhausted ==
    /\ job.status = "Completed"
    /\ Requested("finish_" \o RETRIES_EXCEEDED)
    /\ process.status # "Completed" => job.business_status = RETRIES_EXCEEDED

\* The invocation has failed in its escalation, at the request named `op`
\* (or at the profile lookup, after the intent update).
FailedAt(op, kind) ==
    /\ pc \in {"error", "handle_error", "idle"}
    /\ err = kind
    /\ reqs # << >>
    /\ LET last == IF reqs[Len(reqs)] = "consumer_error_handler"
                   THEN reqs[Len(reqs) - 1] ELSE reqs[Len(reqs)]
       IN  last = op

\* C31: the escalation starts with the job already finished; a failed
\* attempt update returns the error with attempt and intent as they were and
\* no webhook; a failed intent update or profile lookup returns the error
\* with the attempt already Failure, the job finished and no webhook; the
\* webhook is attempted only after both updates and the lookup succeeded.
C31_EscalationIsNotAtomic ==
    /\ EscalationStarted => JobFinishedAsExhausted
    /\ FailedAt("update_payment_attempt", "PaymentNotFound") =>
            /\ attempt = inquired
            /\ intent = intent0
            /\ ~Requested("trigger_payments_webhook")
    /\ FailedAt("update_payment_intent", "PaymentNotFound") =>
            /\ attempt.status = "Failure"
            /\ intent = intent0
            /\ ~Requested("trigger_payments_webhook")
            /\ JobFinishedAsExhausted
    /\ err = "ProfileNotFound" =>
            /\ attempt.status = "Failure"
            /\ intent.status = "Failed"
            /\ ~Requested("trigger_payments_webhook")
            /\ JobFinishedAsExhausted
    /\ Requested("trigger_payments_webhook") =>
            /\ err = "none"
            /\ attempt.status = "Failure"
            /\ intent.status = "Failed"
            /\ Count("update_payment_attempt") = 1
            /\ Count("update_payment_intent") = 1

\* The intent update failed after the attempt update: the invocation has
\* returned the error, the attempt is Failure, the intent is untouched and
\* the job is finished with RETRIES_EXCEEDED.
C31_Witness ==
    /\ FailedAt("update_payment_intent", "PaymentNotFound")
    /\ ret = "Err"
    /\ attempt.status = "Failure"
    /\ inquired.status = "Pending"
    /\ intent = intent0
    /\ job.status = "Completed" /\ job.business_status = RETRIES_EXCEEDED

\* ------------------------------------------ workflow: a finished job stays

\* The job is finished with RETRIES_EXCEEDED.
Exhausted == job.status = "Completed" /\ job.business_status = RETRIES_EXCEEDED

\* C32: once a job is finished with RETRIES_EXCEEDED, no step of any later
\* delivery changes its status or its business status.
C32_FinishedJobIsStable ==
    [][Exhausted => (job'.status = job.status
                        /\ job'.business_status = job.business_status)]_vars

\* A job finished with RETRIES_EXCEEDED was delivered again, its attempt was
\* found escalated to Failure, the finish as completed by the workflow was
\* requested and succeeded, and the job is as it was.
C32_Witness ==
    /\ Exhausted
    /\ process.status = "Completed"
    /\ inquired.status = "Failure"
    /\ reqs = <<"payments_operation_core", "finish_" \o COMPLETED_BY_PT>>
    /\ committed
    /\ EndedOk

\* ------------------------------------------ workflow: no connector recorded

\* The inquiry returned a non-terminal attempt with no connector.
NoConnectorCase ==
    /\ InquiryDone
    /\ inquired.status \notin TerminalSet
    /\ inquired.connector = "none"

\* The invocation has passed the match on the status and its worker lives.
PastTheMatch == pc \notin {"check", "inquiry"} /\ ret # "Crashed"

\* C33: a non-terminal inquired attempt with no connector makes the
\* invocation fail with MissingRequiredField after the inquiry and nothing
\* else: no retry or finish request, hence no resolver call, and no attempt,
\* intent or webhook write; until the error handler runs the job is as
\* delivered. No other case yields that error.
C33_MissingConnectorFailsAlone ==
    /\ (NoConnectorCase /\ PastTheMatch) =>
            /\ err = "MissingRequiredField"
            /\ Positions(TransitionRequests) = {}
            /\ ~EscalationStarted
            /\ attempt = inquired
            /\ intent = intent0
            /\ webhook_result = "none"
            /\ is_last_retry = None
            /\ pc \in {"error", "handle_error"} => job = process
    /\ err = "MissingRequiredField" => NoConnectorCase

\* The invocation has returned MissingRequiredField to the consumer with the
\* inquiry as its only request.
C33_Witness ==
    /\ NoConnectorCase
    /\ pc = "handle_error"
    /\ ret = "Err"
    /\ err = "MissingRequiredField"
    /\ reqs = <<"payments_operation_core">>


\* The helper has returned without having written: its record write failed.
WriteFailed ==
    /\ activation.pc = "idle"
    /\ activation.result # None
    /\ activation.result[1].tag = "Err"
    /\ activation.result[1].message \in
          {<<"Failed to update routing algorithm ref in merchant account">>,
           <<"Failed to update routing algorithm ref in business profile">>}

\* C34: activation is write-then-publish without rollback. If the record
\* write fails, the helper returns an error, the records are as they were
\* and nothing is published; if the write succeeds and the publish fails,
\* the helper returns an error while the merchant account / business profile
\* record already holds the new algorithm ref and nothing was published.
C34_NoRollback ==
    /\ WriteFailed =>
          /\ activation.log = << >>
          /\ activation.result[1].kind = "InternalServerError"
          /\ merchant_account = activation.before[1]
          /\ business_profile = activation.before[2]
          /\ redact_channel = activation.before[3]
    /\ PublishFailed =>
          /\ activation.result # None
          /\ activation.result[1].tag = "Err"
          /\ WrittenRef = ActivatedRef
          /\ redact_channel = activation.before[3]

\* A profile activation replaced the stored payment ref and its publish
\* failed: the profile holds the new ref, not the one it held before.
C34_Witness ==
    /\ PublishFailed
    /\ activation.op = "profile"
    /\ activation.transaction_type = "Payment"
    /\ activation.before[2].routing_algorithm # None
    /\ business_profile.routing_algorithm = ActivatedRef
    /\ business_profile.routing_algorithm # activation.before[2].routing_algorithm
    /\ activation.result[1].tag = "Err"


\* ------------------------------------------- routing: keys of many merchants

\* Merchant ids are caller-chosen strings; the helpers take them as &str.
MerchantIds == {"mer_1", "po_mer_1"}

\* The (merchant_id, transaction type) pairs in the order of their first use.
FirstUses == << <<"mer_1", "Payment">>, <<"mer_1", "Payout">>,
                <<"po_mer_1", "Payment">>, <<"po_mer_1", "Payout">> >>

\* The table after the default config of the first n pairs was created empty
\* on first access: a key that has a row already gets no second one.
RECURSIVE CreatedDefaults(_)
CreatedDefaults(n) ==
    IF n = 0 THEN << >>
    ELSE insert_config(CreatedDefaults(n - 1),
                       [key |-> get_default_config_key(FirstUses[n][1], FirstUses[n][2]),
                        config |-> encode_to_string_of_json(<< >>)]).table

\* The default configs of all pairs, then the dictionary of each merchant.
KeyTable ==
    CreatedDefaults(Len(FirstUses)) \o
        << [key |-> get_routing_dictionary_key("mer_1"),
            config |-> encode_struct_to_string_of_json(EmptyDictionary)],
           [key |-> get_routing_dictionary_key("po_mer_1"),
            config |-> encode_struct_to_string_of_json(
                          [EmptyDictionary EXCEPT !.merchant_id = "po_mer_1"])] >>

KeyInit ==
    /\ WorkflowIdle
    /\ merchant_connector_accounts = {}
    /\ routing_algorithm = << >>
    /\ validation = None
    /\ business_profile = << >>
    /\ merchant_account = << >>
    /\ redact_channel = << >>
    /\ activation = << >>
    /\ configs = KeyTable
    /\ callers = [c \in Callers |->
                    [pc |-> "idle", calls |-> 0, cur |-> NoCall, prev |-> NoCall]]
    /\ NoReaders

\* update_merchant_default_config(db, merchant_id, connectors,
\* transaction_type) up to its await point; the call remembers the pair it
\* was made for.
UpdateDefaultConfigOf(c, merchant_id, connectors, transaction_type) ==
    /\ callers[c].pc = "idle"
    /\ CallsMade < MaxCalls
    /\ callers' = [callers EXCEPT ![c] =
            [pc |-> "update", calls |-> @.calls + 1,
             cur |-> [op |-> "update",
                      key |-> get_default_config_key(merchant_id, transaction_type),
                      argument |-> connectors,
                      result |-> None, inserted |-> FALSE, fault |-> FALSE,
                      table0 |-> configs, written |-> 0,
                      merchant_id |-> merchant_id,
                      transaction_type |-> transaction_type],
             prev |-> @.cur]]
    /\ UNCHANGED <<no_config_state, configs>>

KeyNext ==
    \E c \in Callers :
        \/ \E m \in MerchantIds, l \in DefaultConfigLists, t \in TransactionTypes :
                UpdateDefaultConfigOf(c, m, l, t)
        \/ \E outcome \in StoreOutcomes : UpdateConfig(c, outcome)

KeySpec == KeyInit /\ [][KeyNext]_vars

\* The stored default config of a pair, and the stored dictionary of a
\* merchant.
DefaultConfigOf(table, merchant_id, transaction_type) ==
    find_config_by_key(table, get_default_config_key(merchant_id, transaction_type))

DictionaryOf(table, merchant_id) ==
    find_config_by_key(table, get_routing_dictionary_key(merchant_id))

\* Caller c's update of a payment default config is written in this step.
PaymentUpdateWritten(c) ==
    /\ callers[c].pc = "update"
    /\ callers'[c].pc = "idle"
    /\ callers[c].cur.transaction_type = "Payment"
    /\ callers'[c].cur.result = Some(Ok)

\* C35: storage keys do not collide, so updating the payment default config
\* of one merchant never changes the payout default config or the routing
\* dictionary of any merchant.
C35_PaymentUpdateChangesNoOtherRecord ==
    [][\A c \in Callers :
          PaymentUpdateWritten(c) =>
              \A m \in MerchantIds :
                  /\ DefaultConfigOf(configs', m, "Payout")
                        = DefaultConfigOf(configs, m, "Payout")
                  /\ DictionaryOf(configs', m) = DictionaryOf(configs, m)]_vars

\* The payment update of one merchant has returned Ok and the payout default
\* config of another merchant holds the list it handed in.
PayoutOverwrittenByPayment ==
    \E c \in Callers :
        /\ callers[c].pc = "idle"
        /\ callers[c].cur.op = "update"
        /\ callers[c].cur.result = Some(Ok)
        /\ callers[c].cur.transaction_type = "Payment"
        /\ callers[c].cur.merchant_id = "po_mer_1"
        /\ DefaultConfigOf(configs, "mer_1", "Payout") # None
        /\ DefaultConfigOf(configs, "mer_1", "Payout")[1].config
              = encode_to_string_of_json(callers[c].cur.argument)


\* ------------------------------------------------ MockDb: organizations
\* crates/router/src/db/organization.rs, impl OrganizationInterface for MockDb.

\* Calls of MockDb's organization methods per behaviour, over all clients.
MaxOrgCalls == 3

Clients == {"p", "q"}

OrgIds == {"org_1", "org_2"}

\* storage::OrganizationNew values handed to insert_organization.
OrganizationNews ==
    [org_id : OrgIds, org_name : {Some("acme")},
     organization_details : {None}, metadata : {None}]

\* storage::OrganizationUpdate::Update values handed to
\* update_organization_by_org_id.
OrganizationUpdates ==
    { [org_name |-> Some("renamed"), organization_details |-> Some("details"),
       metadata |-> None],
      [org_name |-> None, organization_details |-> None,
       metadata |-> Some("meta")] }

\* A client that is not in a call.
NoOrgCall == [op |-> "none", org_id |-> "", argument |-> << >>, result |-> None,
              before |-> << >>, after |-> << >>]

\* The routing helpers and the Hipay connector are not used by MockDb's
\* clients.
no_mockdb_state == <<workflow, merchant_connector_accounts, routing_algorithm,
                     validation, business_profile, merchant_account, redact_channel,
                     activation, configs, callers, cache, readers, resolver, hipay>>

MockDbInit ==
    /\ WorkflowIdle
    /\ merchant_connector_accounts = {}
    /\ routing_algorithm = << >>
    /\ validation = << >>
    /\ business_profile = << >>
    /\ merchant_account = << >>
    /\ redact_channel = << >>
    /\ activation = << >>
    /\ configs = << >>
    /\ callers = << >>
    /\ cache = << >>
    /\ readers = << >>
    /\ resolver = << >>
    /\ organizations = << >>
    /\ clients = [c \in Clients |->
                    [pc |-> "idle", calls |-> 0, cur |-> NoOrgCall, prev |-> NoOrgCall]]
    /\ hipay = << >>

\* The calls begun so far, over the two clients.
OrgCallsMade == clients["p"].calls + clients["q"].calls

\* The indices of the organizations with the given org_id.
OrgAt(list, org_id) == {i \in 1..Len(list) : list[i].org_id = org_id}

\* iter().find(|org| org.org_id == *org_id): the first match, if any.
FindOrg(list, org_id) ==
    IF OrgAt(list, org_id) = {} THEN None
    ELSE Some(list[CHOOSE i \in OrgAt(list, org_id) :
                        \A j \in OrgAt(list, org_id) : i <= j])

\* Client c calls a method and waits for the lock on self.organizations.
OrganizationCall(c, op, org_id, argument) ==
    /\ clients[c].pc = "idle"
    /\ OrgCallsMade < MaxOrgCalls
    /\ clients' = [clients EXCEPT ![c] =
            [pc |-> "lock", calls |-> @.calls + 1,
             cur |-> [op |-> op, org_id |-> org_id, argument |-> argument,
                      result |-> None, before |-> << >>, after |-> << >>],
             prev |-> @.cur]]
    /\ UNCHANGED <<no_mockdb_state, organizations>>

\* The clients that hold the lock.
LockHolders == {c \in Clients : clients[c].pc \notin {"idle", "lock"}}

\* The position a method's body starts at.
BodyOf(op) == CASE op = "insert" -> "check"
                [] op = "find" -> "find"
                [] op = "update" -> "update"

\* Lock that is granted while another client holds it.
Lock_NotExclusive(c) ==
    /\ clients[c].pc = "lock"
    /\ clients' = [clients EXCEPT ![c].pc = BodyOf(clients[c].cur.op),
                                  ![c].cur.before = organizations]
    /\ UNCHANGED <<no_mockdb_state, organizations>>

\* self.organizations.lock().await: granted when no client holds it.
Lock(c) ==
    /\ clients[c].pc = "lock"
    /\ LockHolders = {}
    /\ clients' = [clients EXCEPT ![c].pc = BodyOf(clients[c].cur.op),
                                  ![c].cur.before = organizations]
    /\ UNCHANGED <<no_mockdb_state, organizations>>

\* The method returns r and its guard is dropped; `list` is the list it
\* leaves.
OrgReturn(c, r, list) ==
    clients' = [clients EXCEPT ![c].pc = "idle", ![c].cur.result = Some(r),
                               ![c].cur.after = list]

\* insert_organization: the check for an organization with the same org_id.
InsertOrganizationCheck(c) ==
    /\ clients[c].pc = "check"
    /\ IF OrgAt(organizations, clients[c].cur.argument.org_id) # {}
       THEN OrgReturn(c, Err("DuplicateValue", <<"org_id">>), organizations)
       ELSE clients' = [clients EXCEPT ![c].pc = "push"]
    /\ UNCHANGED <<no_mockdb_state, organizations>>

\* The organization insert_organization builds from an OrganizationNew.
NewOrganization(organization) ==
    [org_id |-> organization.org_id,
     org_name |-> organization.org_name,
     organization_details |-> organization.organization_details,
     metadata |-> organization.metadata,
     created_at |-> "now", modified_at |-> "now"]

\* insert_organization: organizations.push(org.clone()); Ok(org).
InsertOrganizationPush(c) ==
    /\ clients[c].pc = "push"
    /\ LET org == NewOrganization(clients[c].cur.argument)
       IN  /\ organizations' = Append(organizations, org)
           /\ OrgReturn(c, OkWith(org), Append(organizations, org))
    /\ UNCHANGED no_mockdb_state

ValueNotFound(org_id) ==
    Err("ValueNotFound", <<"No organization available for org_id = ", org_id>>)

\* find_organization_by_org_id.
FindOrganizationByOrgId(c) ==
    /\ clients[c].pc = "find"
    /\ LET found == FindOrg(organizations, clients[c].cur.org_id)
       IN  IF found # None
           THEN OrgReturn(c, OkWith(found[1]), organizations)
           ELSE OrgReturn(c, ValueNotFound(clients[c].cur.org_id), organizations)
    /\ UNCHANGED <<no_mockdb_state, organizations>>

\* The Organization the closure of update_organization_by_org_id builds: the
\* three fields of the update, the rest of the stored organization.
UpdatedOrganization(org, update) ==
    [org EXCEPT !.org_name = update.org_name,
                !.organization_details = update.organization_details,
                !.metadata = update.metadata]

\* UpdateOrganizationByOrgId that stores the organization it returns.
UpdateOrganizationByOrgId_Stores(c) ==
    /\ clients[c].pc = "update"
    /\ LET found == FindOrg(organizations, clients[c].cur.org_id)
           list == [i \in 1..Len(organizations) |->
                      IF organizations[i].org_id = clients[c].cur.org_id
                      THEN UpdatedOrganization(organizations[i], clients[c].cur.argument)
                      ELSE organizations[i]]
       IN  /\ organizations' = list
           /\ IF found # None
              THEN OrgReturn(c, OkWith(UpdatedOrganization(found[1],
                                                           clients[c].cur.argument)),
                             list)
              ELSE OrgReturn(c, ValueNotFound(clients[c].cur.org_id), list)
    /\ UNCHANGED no_mockdb_state

\* update_organization_by_org_id: iter_mut().find(..).map(..) builds a new
\* Organization from the found one and returns it; the element of the list
\* is not assigned to.
UpdateOrganizationByOrgId(c) ==
    /\ clients[c].pc = "update"
    /\ LET found == FindOrg(organizations, clients[c].cur.org_id)
       IN  IF found # None
           THEN OrgReturn(c, OkWith(UpdatedOrganization(found[1],
                                                        clients[c].cur.argument)),
                          organizations)
           ELSE OrgReturn(c, ValueNotFound(clients[c].cur.org_id), organizations)
    /\ UNCHANGED <<no_mockdb_state, organizations>>

MockDbNext ==
    \E c \in Clients :
        \/ \E organization \in OrganizationNews :
                OrganizationCall(c, "insert", organization.org_id, organization)
        \/ \E org_id \in OrgIds : OrganizationCall(c, "find", org_id, << >>)
        \/ \E org_id \in OrgIds, update \in OrganizationUpdates :
                OrganizationCall(c, "update", org_id, update)
        \/ Lock(c)
        \/ InsertOrganizationCheck(c)
        \/ InsertOrganizationPush(c)
        \/ FindOrganizationByOrgId(c)
        \/ UpdateOrganizationByOrgId(c)

MockDbSpec == MockDbInit /\ [][MockDbNext]_vars


\* ------------------------------------------------- MockDb: properties

\* The finished calls on record: each client's last two.
FinishedOrgCalls ==
    {call \in {clients[c].cur : c \in Clients} \cup {clients[c].prev : c \in Clients} :
        call.result # None}

\* No two organizations of the list have the same org_id.
OrgIdUnique ==
    \A i, j \in 1..Len(organizations) :
        organizations[i].org_id = organizations[j].org_id => i = j

\* C36: in MockDb, org_id is unique in every reachable state, also under
\* concurrent inserts: insert_organization with an org_id already present
\* returns DuplicateValue and leaves the list unchanged (and inserts
\* otherwise); find_organization_by_org_id and update_organization_by_org_id
\* on an absent org_id return ValueNotFound and leave the list unchanged.
C36_OrgIdUnique ==
    /\ OrgIdUnique
    /\ \A call \in FinishedOrgCalls :
          /\ (call.op = "insert" /\ OrgAt(call.before, call.org_id) # {}) =>
                /\ call.result[1] = Err("DuplicateValue", <<"org_id">>)
                /\ call.after = call.before
          /\ (call.op = "insert" /\ OrgAt(call.before, call.org_id) = {}) =>
                /\ call.result[1].tag = "Ok"
                /\ call.after = Append(call.before, call.result[1].value)
          /\ (call.op \in {"find", "update"} /\ OrgAt(call.before, call.org_id) = {}) =>
                /\ call.result[1].tag = "Err"
                /\ call.result[1].kind = "ValueNotFound"
                /\ call.after = call.before

\* Both clients asked to insert the same org_id while neither held the
\* lock; one inserted it and the other was refused.
C36_Witness ==
    /\ clients["p"].pc = "idle" /\ clients["q"].pc = "idle"
    /\ clients["p"].cur.op = "insert" /\ clients["q"].cur.op = "insert"
    /\ clients["p"].cur.org_id = clients["q"].cur.org_id
    /\ clients["p"].calls = 1 /\ clients["q"].calls = 1
    /\ clients["p"].cur.result[1].tag = "Ok"
    /\ clients["q"].cur.result[1].kind = "DuplicateValue"
    /\ Len(organizations) = 1

\* Client c updated an organization and then read it, both calls returned
\* Ok, and no other client has called in the meantime.
UpdatedThenFound(c) ==
    /\ clients[c].pc = "idle"
    /\ clients[c].prev.op = "update"
    /\ clients[c].cur.op = "find"
    /\ clients[c].cur.org_id = clients[c].prev.org_id
    /\ clients[c].prev.result[1].tag = "Ok"
    /\ clients[c].cur.result[1].tag = "Ok"
    /\ clients[c].cur.before = clients[c].prev.after

\* C37: in MockDb, an update is visible to later reads: after
\* update_organization_by_org_id returns Ok with an updated organization for
\* an existing org_id, find_organization_by_org_id for that org_id returns
\* the same updated org_name, organization_details and metadata.
C37_UpdateIsVisible ==
    \A c \in Clients :
        UpdatedThenFound(c) =>
            LET updated == clients[c].prev.result[1].value
                found == clients[c].cur.result[1].value
            IN  /\ found.org_name = updated.org_name
                /\ found.organization_details = updated.organization_details
                /\ found.metadata = updated.metadata

\* An update returned Ok with new values and the read that follows returns
\* the organization as it was inserted.
UpdateLost ==
    \E c \in Clients :
        /\ UpdatedThenFound(c)
        /\ clients[c].prev.result[1].value.org_name = Some("renamed")
        /\ clients[c].cur.result[1].value.org_name = Some("acme")


\* ------------------------------------------------ the Hipay connector
\* crates/hyperswitch_connectors/src/connectors/hipay/transformers.rs.

\* The largest `status` of a sync reply explored; the smallest is -1.
MaxSyncState == 201

SyncStates == (0 - 1)..MaxSyncState

\* enum HipayPaymentStatus.
HipayPaymentStatuses ==
    {"AuthenticationFailed", "Blocked", "Denied", "AuthorizedAndPending", "Refused",
     "Expired", "Cancelled", "Authorized", "CaptureRequested", "Captured",
     "PartiallyCaptured", "ChargedBack", "CaptureRefused", "AwaitingTerminal",
     "AuthorizationCancellationRequested", "ChallengeRequested", "SoftDeclined",
     "PendingPayment", "Created", "UnableToAuthenticate", "CardholderAuthenticated",
     "AuthenticationAttempted", "CouldNotAuthenticate", "Collected",
     "PartiallyCollected", "Settled", "PartiallySettled", "AuthenticationRequested",
     "Authenticated", "AcquirerNotFound", "RiskAccepted", "AuthorizationRefused"}

\* The wire code of a payment status: its #[serde(rename = "..")].
WireCode(status) ==
    CASE status = "AuthenticationFailed" -> 109
      [] status = "Blocked" -> 110
      [] status = "Denied" -> 111
      [] status = "AuthorizedAndPending" -> 112
      [] status = "Refused" -> 113
      [] status = "Expired" -> 114
      [] status = "Cancelled" -> 115
      [] status = "Authorized" -> 116
      [] status = "CaptureRequested" -> 117
      [] status = "Captured" -> 118
      [] status = "PartiallyCaptured" -> 119
      [] status = "ChargedBack" -> 129
      [] status = "CaptureRefused" -> 173
      [] status = "AwaitingTerminal" -> 174
      [] status = "AuthorizationCancellationRequested" -> 175
      [] status = "ChallengeRequested" -> 177
      [] status = "SoftDeclined" -> 178
      [] status = "PendingPayment" -> 200
      [] status = "Created" -> 101
      [] status = "UnableToAuthenticate" -> 105
      [] status = "CardholderAuthenticated" -> 106
      [] status = "AuthenticationAttempted" -> 107
      [] status = "CouldNotAuthenticate" -> 108
      [] status = "Collected" -> 120
      [] status = "PartiallyCollected" -> 121
      [] status = "Settled" -> 122
      [] status = "PartiallySettled" -> 123
      [] status = "AuthenticationRequested" -> 140
      [] status = "Authenticated" -> 141
      [] status = "AcquirerNotFound" -> 151
      [] status = "RiskAccepted" -> 161
      [] status = "AuthorizationRefused" -> 163

\* impl From<HipayPaymentStatus> for common_enums::AttemptStatus.
AttemptStatusFrom(status) ==
    CASE status = "AuthenticationFailed" -> "AuthenticationFailed"
      [] status \in {"Blocked", "Refused", "Expired", "Denied"} -> "Failure"
      [] status = "AuthorizedAndPending" -> "Pending"
      [] status = "Cancelled" -> "Voided"
      [] status = "Authorized" -> "Authorized"
      [] status = "CaptureRequested" -> "CaptureInitiated"
      [] status = "Captured" -> "Charged"
      [] status = "PartiallyCaptured" -> "PartialCharged"
      [] status = "CaptureRefused" -> "CaptureFailed"
      [] status = "AwaitingTerminal" -> "Pending"
      [] status = "AuthorizationCancellationRequested" -> "VoidInitiated"
      [] status = "ChallengeRequested" -> "AuthenticationPending"
      [] status = "SoftDeclined" -> "Failure"
      [] status = "PendingPayment" -> "Pending"
      [] status = "ChargedBack" -> "Failure"
      [] status = "Created" -> "Started"
      [] status \in {"UnableToAuthenticate", "CouldNotAuthenticate"} ->
            "AuthenticationFailed"
      [] status = "CardholderAuthenticated" -> "Pending"
      [] status = "AuthenticationAttempted" -> "AuthenticationPending"
      [] status \in {"Collected", "PartiallySettled", "PartiallyCollected", "Settled"} ->
            "Charged"
      [] status = "AuthenticationRequested" -> "AuthenticationPending"
      [] status = "Authenticated" -> "AuthenticationSuccessful"
      [] status = "AcquirerNotFound" -> "Failure"
      [] status = "RiskAccepted" -> "Pending"
      [] status = "AuthorizationRefused" -> "Failure"

\* get_sync_status without its arm for 61.
get_sync_status_Without61(state) ==
    CASE state = 9 -> "AuthenticationFailed"
      [] state \in {10, 11, 13, 14, 29, 78, 51, 63} -> "Failure"
      [] state \in {12, 74, 200, 6} -> "Pending"
      [] state = 15 -> "Voided"
      [] state = 16 -> "Authorized"
      [] state = 17 -> "CaptureInitiated"
      [] state \in {18, 20, 21, 22, 23} -> "Charged"
      [] state = 19 -> "PartialCharged"
      [] state = 73 -> "CaptureFailed"
      [] state = 75 -> "VoidInitiated"
      [] state \in {77, 7, 40} -> "AuthenticationPending"
      [] state = 1 -> "Started"
      [] state \in {5, 8} -> "AuthenticationFailed"
      [] state = 41 -> "AuthenticationSuccessful"
      [] OTHER -> "Failure"

\* fn get_sync_status(state: i32) -> enums::AttemptStatus.
get_sync_status(state) ==
    CASE state = 9 -> "AuthenticationFailed"
      [] state = 10 -> "Failure"
      [] state = 11 -> "Failure"
      [] state = 12 -> "Pending"
      [] state = 13 -> "Failure"
      [] state = 14 -> "Failure"
      [] state = 15 -> "Voided"
      [] state = 16 -> "Authorized"
      [] state = 17 -> "CaptureInitiated"
      [] state = 18 -> "Charged"
      [] state = 19 -> "PartialCharged"
      [] state = 29 -> "Failure"
      [] state = 73 -> "CaptureFailed"
      [] state = 74 -> "Pending"
      [] state = 75 -> "VoidInitiated"
      [] state = 77 -> "AuthenticationPending"
      [] state = 78 -> "Failure"
      [] state = 200 -> "Pending"
      [] state = 1 -> "Started"
      [] state = 5 -> "AuthenticationFailed"
      [] state = 6 -> "Pending"
      [] state = 7 -> "AuthenticationPending"
      [] state = 8 -> "AuthenticationFailed"
      [] state = 20 -> "Charged"
      [] state = 21 -> "Charged"
      [] state = 22 -> "Charged"
      [] state = 23 -> "Charged"
      [] state = 40 -> "AuthenticationPending"
      [] state = 41 -> "AuthenticationSuccessful"
      [] state = 51 -> "Failure"
      [] state = 61 -> "Pending"
      [] state = 63 -> "Failure"
      [] OTHER -> "Failure"

\* struct Reason values of a reply.
Reasons ==
    { [reason |-> None, code |-> None],
      [reason |-> Some("Refused by issuer"), code |-> Some(4010101)] }

\* enum HipaySyncResponse: the two shapes of a status-sync reply.
HipaySyncResponses ==
    [shape : {"Response"}, status : SyncStates, reason : Reasons]
        \cup {[shape |-> "Error", message |-> "Transaction not found", code |-> 3000404]}

\* ToString of a number: its decimal text.
to_string(n) == [decimal |-> n]

\* consts::NO_ERROR_CODE and consts::NO_ERROR_MESSAGE: two fixed texts, kept
\* by name.
NO_ERROR_CODE == "NO_ERROR_CODE"
NO_ERROR_MESSAGE == "NO_ERROR_MESSAGE"

\* The http status of the connector's reply.
HttpCode == 200

\* router_data::ErrorResponse as the sync conversion fills it.
ErrorResponse(code, message) ==
    [variant |-> "ErrorResponse", code |-> code, message |-> message,
     reason |-> Some(message), status_code |-> HttpCode, attempt_status |-> None,
     connector_transaction_id |-> None]

\* PaymentsResponseData::TransactionResponse with the given resource id.
TransactionResponse(resource_id) ==
    [variant |-> "TransactionResponse", resource_id |-> resource_id]

\* Result<PaymentsResponseData, ErrorResponse>.
ResponseOk(data) == [tag |-> "Ok", data |-> data]
ResponseErr(error) == [tag |-> "Err", data |-> error]

\* TryFrom<PaymentsSyncResponseRouterData<HipaySyncResponse>>: the status and
\* the response of the router data it returns.
TryFromSyncResponse(response) ==
    IF response.shape = "Error"
    THEN [status |-> "Failure",
          response |-> ResponseErr(ErrorResponse(to_string(response.code),
                                                 response.message))]
    ELSE LET status == get_sync_status(response.status)
         IN  [status |-> status,
              response |->
                 IF status = "Failure"
                 THEN LET error_code ==
                            IF response.reason.code = None THEN NO_ERROR_CODE
                            ELSE to_string(response.reason.code[1])
                          error_message ==
                            IF response.reason.reason = None THEN NO_ERROR_MESSAGE
                            ELSE response.reason.reason[1]
                      IN  ResponseErr(ErrorResponse(error_code, error_message))
                 ELSE ResponseOk(TransactionResponse("NoResponseId"))]

\* TryFrom<PaymentsCancelResponseRouterData<HipayMaintenanceResponse<
\* HipayPaymentStatus>>>: the status comes from the From impl.
TryFromMaintenanceResponse(status) ==
    [status |-> AttemptStatusFrom(status),
     response |-> ResponseOk(TransactionResponse("ConnectorTransactionId"))]

\* The routing helpers and MockDb are not used by the connector.
no_hipay_state == <<workflow, merchant_connector_accounts, routing_algorithm,
                    validation, business_profile, merchant_account, redact_channel,
                    activation, configs, callers, cache, readers, resolver,
                    organizations, clients>>

\* One status-sync reply and one maintenance reply, neither converted yet.
HipayInit ==
    /\ WorkflowIdle
    /\ merchant_connector_accounts = {}
    /\ routing_algorithm = << >>
    /\ validation = << >>
    /\ business_profile = << >>
    /\ merchant_account = << >>
    /\ redact_channel = << >>
    /\ activation = << >>
    /\ configs = << >>
    /\ callers = << >>
    /\ cache = << >>
    /\ readers = << >>
    /\ resolver = << >>
    /\ organizations = << >>
    /\ clients = << >>
    /\ hipay \in [sync_response : HipaySyncResponses,
                  maintenance_status : HipayPaymentStatuses,
                  synced : {None}, maintained : {None}]

\* ConvertSync that answers every `Response` reply with a transaction
\* response.
ConvertSync_AlwaysTransaction ==
    /\ hipay.synced = None
    /\ hipay' = [hipay EXCEPT !.synced =
            Some(IF hipay.sync_response.shape = "Error"
                 THEN TryFromSyncResponse(hipay.sync_response)
                 ELSE [status |-> get_sync_status(hipay.sync_response.status),
                       response |-> ResponseOk(TransactionResponse("NoResponseId"))])]
    /\ UNCHANGED no_hipay_state

\* The status-sync reply is converted.
ConvertSync ==
    /\ hipay.synced = None
    /\ hipay' = [hipay EXCEPT !.synced = Some(TryFromSyncResponse(hipay.sync_response))]
    /\ UNCHANGED no_hipay_state

\* The maintenance reply is converted.
ConvertMaintenance ==
    /\ hipay.maintained = None
    /\ hipay' = [hipay EXCEPT !.maintained =
                    Some(TryFromMaintenanceResponse(hipay.maintenance_status))]
    /\ UNCHANGED no_hipay_state

HipayNext == ConvertSync \/ ConvertMaintenance

HipaySpec == HipayInit /\ [][HipayNext]_vars

\* ------------------------------------------ the Hipay connector: properties

\* The `status` a sync reply carries for a payment status: its wire code
\* less 100, and 200 for PendingPayment.
SyncStateOf(status) ==
    IF WireCode(status) = 200 THEN 200 ELSE WireCode(status) - 100

\* Both replies are converted and they speak of the same payment status.
SameStatusConverted ==
    /\ hipay.synced # None
    /\ hipay.maintained # None
    /\ hipay.sync_response.shape = "Response"
    /\ hipay.sync_response.status = SyncStateOf(hipay.maintenance_status)

\* C38: the Hipay connector's two status mappings agree: for every
\* HipayPaymentStatus with wire code c in 101..178, get_sync_status(c - 100)
\* equals AttemptStatus::from of that payment status, and for PendingPayment
\* (code 200) get_sync_status(200) equals its mapping, Pending.
C38_StatusMappingsAgree ==
    /\ SameStatusConverted => hipay.synced[1].status = hipay.maintained[1].status
    /\ (SameStatusConverted /\ hipay.maintenance_status = "PendingPayment") =>
            hipay.synced[1].status = "Pending"
    /\ \A status \in HipayPaymentStatuses :
            WireCode(status) \in 101..178 \cup {200}

\* RiskAccepted arrived as 61 in a sync reply and as 161 in a maintenance
\* reply; both conversions gave Pending.
C38_Witness ==
    /\ SameStatusConverted
    /\ hipay.maintenance_status = "RiskAccepted"
    /\ hipay.sync_response.status = 61
    /\ hipay.synced[1].status = "Pending"
    /\ hipay.maintained[1].status = "Pending"

\* The codes get_sync_status has an arm for.
ListedSyncStates ==
    {9, 10, 11, 12, 13, 14, 15, 16, 17, 18, 19, 29, 73, 74, 75, 77, 78, 200, 1, 5, 6,
     7, 8, 20, 21, 22, 23, 40, 41, 51, 61, 63}

\* C39: in the status-sync conversion the resulting attempt status is
\* Failure if and only if the response field is an error: an Error-shaped
\* reply and every status code not listed in get_sync_status give Failure
\* with an ErrorResponse, every code mapped to another status gives a
\* TransactionResponse; so an unrecognised code gives a status of the retry
\* workflow's terminal set.
C39_FailureIffErrorResponse ==
    hipay.synced # None =>
        LET reply == hipay.sync_response
            converted == hipay.synced[1]
        IN  /\ converted.status = "Failure" <=> converted.response.tag = "Err"
            /\ converted.response.tag = "Err" =>
                    converted.response.data.variant = "ErrorResponse"
            /\ converted.response.tag = "Ok" =>
                    converted.response.data.variant = "TransactionResponse"
            /\ reply.shape = "Error" => converted.status = "Failure"
            /\ (reply.shape = "Response" /\ reply.status \notin ListedSyncStates) =>
                    /\ converted.status = "Failure"
                    /\ converted.status \in TerminalSet

\* A reply with the unlisted code 42 and no reason was converted to Failure
\* with the default error code and message.
C39_Witness ==
    /\ hipay.synced # None
    /\ hipay.sync_response.shape = "Response"
    /\ hipay.sync_response.status = 42
    /\ hipay.sync_response.reason.code = None
    /\ hipay.synced[1].status = "Failure"
    /\ hipay.synced[1].response = ResponseErr(ErrorResponse(NO_ERROR_CODE,
                                                             NO_ERROR_MESSAGE))

====
